---- MODULE Spec2Model ----
(***************************************************************************)
(* A model of the retrieval-augmented question answering component of the  *)
(* repository (src/RAG_Part/RagAPP.py, the interactive variant, and        *)
(* src/RAG_Part/api.py, the HTTP service variant).                         *)
(*                                                                         *)
(* Text is modelled by TLA+ strings, handled character by character with   *)
(* Len, SubSeq and \o, so that lower(), split(), substring tests, the      *)
(* regular expressions of detect_query_actor and float() parsing are       *)
(* computed the way the Python code computes them.                         *)
(***************************************************************************)
EXTENDS Integers, Sequences, FiniteSets, TLC

(***************************************************************************)
(* Bounds of the model.                                                    *)
(***************************************************************************)
\* longest string over Alphabet handed to normalize_id
MaxLen == 3

(***************************************************************************)
(* Python values.  None is modelled by a string no identifier can equal.   *)
(***************************************************************************)
None == "<None>"

(***************************************************************************)
(* Character level helpers (str methods of Python).                        *)
(***************************************************************************)
Ch(s, i) == IF 1 <= i /\ i <= Len(s) THEN SubSeq(s, i, i) ELSE ""

Digits == {"0", "1", "2", "3", "4", "5", "6", "7", "8", "9"}

IsDigit(c) == c \in Digits

\* str.isspace for the characters the model uses
IsSpace(c) == c \in {" ", "\t", "\n"}

\* str.lower() on one character (ASCII letters)
LowerCh(c) ==
    CASE c = "A" -> "a" [] c = "B" -> "b" [] c = "C" -> "c" [] c = "D" -> "d"
      [] c = "E" -> "e" [] c = "F" -> "f" [] c = "G" -> "g" [] c = "H" -> "h"
      [] c = "I" -> "i" [] c = "J" -> "j" [] c = "K" -> "k" [] c = "L" -> "l"
      [] c = "M" -> "m" [] c = "N" -> "n" [] c = "O" -> "o" [] c = "P" -> "p"
      [] c = "Q" -> "q" [] c = "R" -> "r" [] c = "S" -> "s" [] c = "T" -> "t"
      [] c = "U" -> "u" [] c = "V" -> "v" [] c = "W" -> "w" [] c = "X" -> "x"
      [] c = "Y" -> "y" [] c = "Z" -> "z" [] OTHER -> c

\* s[lo..hi] in lower case, by halves
RECURSIVE LowerRange(_, _, _)
LowerRange(s, lo, hi) ==
    IF lo > hi THEN ""
    ELSE IF lo = hi THEN LowerCh(Ch(s, lo))
    ELSE LET mid == (lo + hi) \div 2 IN LowerRange(s, lo, mid) \o LowerRange(s, mid + 1, hi)

\* str.lower()
Lower(s) == LowerRange(s, 1, Len(s))

\* s[i:i+len(p)] == p
StartsAt(s, p, i) == i >= 1 /\ i + Len(p) - 1 <= Len(s) /\ SubSeq(s, i, i + Len(p) - 1) = p

\* p in s
Contains(s, p) == \E i \in 1..(Len(s) + 1) : StartsAt(s, p, i)

\* index just after the maximal run of digits that starts at i
SkipDigits(s, i) ==
    IF ~IsDigit(Ch(s, i)) THEN i
    ELSE CHOOSE j \in (i + 1)..(Len(s) + 1) :
            ~IsDigit(Ch(s, j)) /\ \A k \in i..(j - 1) : IsDigit(Ch(s, k))

\* index just after the maximal run of white space that starts at i
SkipSpace(s, i) ==
    IF ~IsSpace(Ch(s, i)) THEN i
    ELSE CHOOSE j \in (i + 1)..(Len(s) + 1) :
            ~IsSpace(Ch(s, j)) /\ \A k \in i..(j - 1) : IsSpace(Ch(s, k))

\* index of the last character that is not trailing white space (0 if none)
LastNonSpace(s, i) ==
    IF ~IsSpace(Ch(s, i)) THEN i
    ELSE CHOOSE j \in 0..(i - 1) :
            ~IsSpace(Ch(s, j)) /\ \A k \in (j + 1)..i : IsSpace(Ch(s, k))

\* str.strip()
Strip(s) == SubSeq(s, SkipSpace(s, 1), LastNonSpace(s, Len(s)))

\* number of zeros that d has from position i on, before any other character
LeadingZeros(d, i) ==
    IF Ch(d, i) # "0" THEN i - 1
    ELSE (CHOOSE j \in (i + 1)..(Len(d) + 1) :
             Ch(d, j) # "0" /\ \A k \in i..(j - 1) : Ch(d, k) = "0") - 1

\* a string of digits without its leading zeros ("0" for zero)
StripZeros(d) ==
    LET lead == LeadingZeros(d, 1)
    IN  IF lead >= Len(d) THEN "0" ELSE SubSeq(d, lead + 1, Len(d))

DigitVal(c) ==
    CASE c = "0" -> 0 [] c = "1" -> 1 [] c = "2" -> 2 [] c = "3" -> 3 [] c = "4" -> 4
      [] c = "5" -> 5 [] c = "6" -> 6 [] c = "7" -> 7 [] c = "8" -> 8 [] c = "9" -> 9

\* the number a short string of digits denotes
RECURSIVE DigitsToNat(_)
DigitsToNat(d) ==
    IF d = "" THEN 0
    ELSE 10 * DigitsToNat(SubSeq(d, 1, Len(d) - 1)) + DigitVal(Ch(d, Len(d)))

RECURSIVE Zeros(_)
Zeros(n) == IF n <= 0 THEN "" ELSE "0" \o Zeros(n - 1)

(***************************************************************************)
(* float(), int() and str() as normalize_id uses them.                     *)
(*                                                                         *)
(* A float is a record: cls is "fin", "inf" or "nan"; a finite one carries *)
(* its sign and the decimal digits ip of its integer part (its value       *)
(* truncated towards zero), frac telling whether a fractional part was     *)
(* cut, and exact telling whether the decimal text is short enough for the *)
(* double to hold it without rounding.                                     *)
(***************************************************************************)
\* decimal integers of up to ExactDigits significant digits convert to a double and back unchanged
ExactDigits == 15

\* a decimal integer of more than FloatMaxDigits digits exceeds the largest double (about 1.8e308)
FloatMaxDigits == 309

Fin(neg, ip, frac, exact) == [cls |-> "fin", neg |-> neg, ip |-> ip, frac |-> frac, exact |-> exact]

Inf(neg) == [cls |-> "inf", neg |-> neg]

NaN == [cls |-> "nan"]

\* float(value) raised exc
Invalid(exc) == [cls |-> "invalid", exc |-> exc]

\* whether any digit from position i on is not zero
AnyNonZero(d, i) == \E k \in i..Len(d) : Ch(d, k) # "0"

\* the value of the exponent digits; the digits beyond the fourth cannot
\* bring an exponent of that size back into the range of a double
ExpValue(expd) ==
    LET e == StripZeros(expd) IN IF Len(e) > 4 THEN 9999 ELSE DigitsToNat(e)

\* the decimal number with the significant digits sig, count of them before
\* the decimal point
Rounded(neg, sig, count) ==
    IF sig = "" THEN Fin(neg, "0", FALSE, TRUE)
    ELSE IF count > FloatMaxDigits \/ (count = FloatMaxDigits /\ Ch(sig, 1) # "1")
         THEN Inf(neg)
    ELSE IF count <= 0 THEN Fin(neg, "0", TRUE, Len(sig) <= ExactDigits)
    ELSE IF count > ExactDigits \/ Len(sig) > ExactDigits
         THEN Fin(neg, "", FALSE, FALSE)
    ELSE IF count >= Len(sig)
         THEN Fin(neg, sig \o Zeros(count - Len(sig)), FALSE, TRUE)
    ELSE Fin(neg, SubSeq(sig, 1, count), AnyNonZero(sig, count + 1), TRUE)

\* the digits D, of which lead are leading zeros and point stand before the
\* decimal point
Significant(neg, D, lead, point) == Rounded(neg, SubSeq(D, lead + 1, Len(D)), point - lead)

\* the decimal number  intd.fracd * 10^e
Decimal(neg, intd, fracd, e) ==
    Significant(neg, intd \o fracd, LeadingZeros(intd \o fracd, 1), Len(intd) + e)

\* digits[.digits][e[sign]digits] in body: the integer digits end before i1,
\* the fraction before i2, the exponent digits run from k to before i3
ParseExponent(neg, body, intd, fracd, i2, k, i3) ==
    IF ~(/\ Len(intd) + Len(fracd) >= 1
         /\ IF Ch(body, i2) \in {"e", "E"} THEN i3 > k /\ i3 = Len(body) + 1
                                            ELSE i2 = Len(body) + 1)
    THEN Invalid("ValueError")
    ELSE Decimal(neg, intd, fracd,
                 IF Ch(body, i2) \notin {"e", "E"} THEN 0
                 ELSE IF Ch(body, i2 + 1) = "-" THEN 0 - ExpValue(SubSeq(body, k, i3 - 1))
                 ELSE ExpValue(SubSeq(body, k, i3 - 1)))

ParseMantissa(neg, body, i1, i2, k) ==
    ParseExponent(neg, body, SubSeq(body, 1, i1 - 1),
                  IF i2 > i1 THEN SubSeq(body, i1 + 1, i2 - 1) ELSE "",
                  i2, k, SkipDigits(body, k))

ParseFraction(neg, body, i1, i2) ==
    ParseMantissa(neg, body, i1, i2, IF Ch(body, i2 + 1) \in {"+", "-"} THEN i2 + 2 ELSE i2 + 1)

ParseDigits(neg, body, i1) ==
    ParseFraction(neg, body, i1, IF Ch(body, i1) = "." THEN SkipDigits(body, i1 + 1) ELSE i1)

\* the text after the sign, lb its lower case
ParseBody(neg, body, lb) ==
    IF lb \in {"inf", "infinity"} THEN Inf(neg)
    ELSE IF lb = "nan" THEN NaN
    ELSE ParseDigits(neg, body, SkipDigits(body, 1))

ParseUnsigned(neg, body) == ParseBody(neg, body, Lower(body))

ParseStripped(t) ==
    ParseUnsigned(Ch(t, 1) = "-", IF Ch(t, 1) \in {"+", "-"} THEN SubSeq(t, 2, Len(t)) ELSE t)

\* float(text) for a str: white space is stripped, then an optional sign and
\* either inf, infinity, nan (in any case) or digits[.digits][e[sign]digits]
ParseFloat(s) == ParseStripped(Strip(s))

(***************************************************************************)
(* The values handed to normalize_id: None, str, int and float.            *)
(***************************************************************************)
PyNone == [t |-> "NoneType"]

PyStr(s) == [t |-> "str", s |-> s]

\* an int, by sign and decimal digits
PyInt(neg, d) == [t |-> "int", neg |-> neg, d |-> d]

PyFloat(f) == [t |-> "float", f |-> f]

\* pd.isna(value): None and the float nan are missing; a str never is
IsNa(value) == value.t = "NoneType" \/ (value.t = "float" /\ value.f.cls = "nan")

\* float(value)
ToFloat(value) ==
    CASE value.t = "str"   -> ParseFloat(value.s)
      [] value.t = "int"   -> Decimal(value.neg, value.d, "", 0)
      [] value.t = "float" -> value.f
      [] value.t = "NoneType" -> Invalid("TypeError")

\* str(value)
ToStr(value) ==
    CASE value.t = "str" -> value.s
      [] value.t = "int" -> (IF value.neg /\ StripZeros(value.d) # "0" THEN "-" ELSE "") \o StripZeros(value.d)
      [] value.t = "float" ->
            IF value.f.cls = "inf" THEN (IF value.f.neg THEN "-inf" ELSE "inf")
            ELSE IF value.f.cls = "nan" THEN "nan"
            ELSE (IF value.f.neg THEN "-" ELSE "") \o value.f.ip \o (IF value.f.frac THEN ".5" ELSE ".0")
      [] value.t = "NoneType" -> "None"

Returned(s) == [ok |-> TRUE, s |-> s]

Raised(exc) == [ok |-> FALSE, exc |-> exc]

\* the except clause of normalize_id: ValueError and TypeError only
NormalizeCaught == {"ValueError", "TypeError"}

\* the exception of  str(int(f)),  "" when there is none
IntError(f) ==
    CASE f.cls = "invalid" -> f.exc
      [] f.cls = "nan"     -> "ValueError"
      [] f.cls = "inf"     -> "OverflowError"
      [] OTHER             -> ""

\* the try block and the except clause, for f = float(value)
NormalizeFloat(value, f, exc) ==
    IF exc = ""
    THEN Returned((IF f.neg /\ f.ip # "0" THEN "-" ELSE "") \o f.ip)
    ELSE IF exc \in NormalizeCaught THEN Returned(ToStr(value))
    ELSE Raised(exc)

NormalizeNumber(value, f) == NormalizeFloat(value, f, IntError(f))

\* normalize_id(value)
normalize_id(value) ==
    IF IsNa(value) THEN Returned("0") ELSE NormalizeNumber(value, ToFloat(value))

(***************************************************************************)
(* detect_query_actor: the regular expressions  word\s*(\d+)  and          *)
(* word\s+mid\s*(\d+),  searched with re.search in the lowercased query.   *)
(***************************************************************************)
Pat(actor, word, mid) == [actor |-> actor, word |-> word, mid |-> mid]

\* RagAPP.py: patient_patterns, provider_patterns, org_patterns, payer_patterns,
\* in the order of the four for loops
PatternsRagAPP ==
    << Pat("patient", "patient", ""), Pat("patient", "patient", "id"),
       Pat("patient", "patient", "number"),
       Pat("provider", "provider", ""), Pat("provider", "provider", "id"),
       Pat("provider", "doctor", ""), Pat("provider", "physician", ""),
       Pat("organization", "organization", ""), Pat("organization", "org", ""),
       Pat("organization", "hospital", ""), Pat("organization", "facility", ""),
       Pat("payer", "payer", ""), Pat("payer", "insurance", "") >>

\* api.py: the patterns dict, iterated in insertion order
PatternsApi ==
    << Pat("patient", "patient", ""), Pat("patient", "patient", "id"),
       Pat("provider", "provider", ""), Pat("provider", "doctor", ""),
       Pat("provider", "physician", ""),
       Pat("organization", "organization", ""), Pat("organization", "org", ""),
       Pat("organization", "hospital", ""),
       Pat("payer", "payer", ""), Pat("payer", "insurance", "") >>

\* the generic keywords, in the order of the if statements
KeywordsRagAPP ==
    << <<"patient", {"patient"}>>,
       <<"provider", {"doctor", "physician", "provider", "dr."}>>,
       <<"organization", {"hospital", "organization", "facility", "clinic"}>>,
       <<"payer", {"insurance", "payer", "coverage"}>> >>

KeywordsApi ==
    << <<"patient", {"patient"}>>,
       <<"provider", {"doctor", "physician", "provider"}>>,
       <<"organization", {"hospital", "organization", "facility"}>>,
       <<"payer", {"insurance", "payer"}>> >>

\* where the digits of a match of pat that starts at i begin (0: no match at i).
\* \s* and \s+ are greedy and white space is no digit, so the digits must
\* follow the whole run of white space.
DigitsAt(s, pat, i) ==
    IF ~StartsAt(s, pat.word, i) THEN 0
    ELSE LET a == i + Len(pat.word)
             b == SkipSpace(s, a)
         IN  IF pat.mid = "" THEN (IF IsDigit(Ch(s, b)) THEN b ELSE 0)
             ELSE IF b = a \/ ~StartsAt(s, pat.mid, b) THEN 0
             ELSE LET c == SkipSpace(s, b + Len(pat.mid))
                  IN  IF IsDigit(Ch(s, c)) THEN c ELSE 0

\* re.search(pattern, s): the leftmost match; its group(1), or None
Search(s, pat) ==
    IF \A i \in 1..Len(s) : DigitsAt(s, pat, i) = 0 THEN None
    ELSE LET i == CHOOSE i \in 1..Len(s) :
                     DigitsAt(s, pat, i) > 0 /\ \A j \in 1..(i - 1) : DigitsAt(s, pat, j) = 0
             d == DigitsAt(s, pat, i)
         IN  SubSeq(s, d, SkipDigits(s, d) - 1)

Detected(actor, id) == [ok |-> TRUE, actor_type |-> actor, actor_id |-> id]

\* the index of the first pattern, from the k-th on, that matches (0: none does)
RECURSIVE FirstMatch(_, _, _)
FirstMatch(s, pats, k) ==
    IF k > Len(pats) THEN 0
    ELSE IF Search(s, pats[k]) # None THEN k
    ELSE FirstMatch(s, pats, k + 1)

\* the first generic keyword group, from the k-th on, with a word in s
RECURSIVE FirstKeyword(_, _, _)
FirstKeyword(s, groups, k) ==
    IF k > Len(groups) THEN None
    ELSE IF \E w \in groups[k][2] : Contains(s, w) THEN groups[k][1]
    ELSE FirstKeyword(s, groups, k + 1)

\* detect_query_actor(query), of RagAPP.py or of api.py
detect_query_actor(variant, query) ==
    LET query_lower == Lower(query)
        pats   == IF variant = "RagAPP" THEN PatternsRagAPP ELSE PatternsApi
        groups == IF variant = "RagAPP" THEN KeywordsRagAPP ELSE KeywordsApi
        k      == FirstMatch(query_lower, pats, 1)
    IN  IF k > 0
        THEN LET id == normalize_id(PyStr(Search(query_lower, pats[k])))
             IN  IF id.ok THEN Detected(pats[k].actor, id.s) ELSE id
        ELSE Detected(FirstKeyword(query_lower, groups, 1), None)

(***************************************************************************)
(* Documents and the Document Store.                                       *)
(*                                                                         *)
(* A document is its page_content and its metadata, as build_database      *)
(* writes them.  The store is the FAISS index the retriever is handed: its *)
(* searches are calls into a library, so a search is modelled by what the  *)
(* retriever may get back from it: an exception, or up to k distinct       *)
(* stored documents that match the metadata filter, in any order.          *)
(***************************************************************************)
\* most documents one search returns in the model (the code asks for 10 to 1000)
MaxHits == 2

Doc(content, metadata) == [page_content |-> content, metadata |-> metadata]

\* doc.metadata.get(key)
MetaGet(doc, key) == IF key \in DOMAIN doc.metadata THEN doc.metadata[key] ELSE None

ContentMedication == "Patient 3 had medication on 20200101. Lisinopril 10mg"

\* two fact rows of patient 3 that render to the same text (second representation)
EventA ==
    Doc(ContentMedication,
        [source |-> "warehouse", patient_id |-> "3", type |-> "event", date |-> "20200101",
         category |-> "Medication", provider_id |-> "1", related_provider |-> "Dr A"])

EventB ==
    Doc(ContentMedication,
        [source |-> "warehouse", patient_id |-> "3", type |-> "event", date |-> "20200101",
         category |-> "Medication", provider_id |-> "2", related_provider |-> "Dr B"])

\* an event of another patient, with provider 2
EventOther ==
    Doc("Patient 7 had procedure on 20210101. Appendectomy",
        [source |-> "warehouse", patient_id |-> "7", type |-> "event", date |-> "20210101",
         category |-> "Procedure", provider_id |-> "2", related_provider |-> "Dr B"])

ProfilePatient ==
    Doc("Patient 3: F, born 1970, lives in Boston, MA 2101. Has 2 medical events. Event types: Medication. ",
        [source |-> "patient_dim", patient_id |-> "3", type |-> "patient_profile",
         event_count |-> "2"])

ProfileProvider ==
    Doc("Provider 1: Dr A, Specialty: GP. Treated 1 patients with 1 total events. Patient IDs: 3.",
        [source |-> "provider_dim", provider_id |-> "1", type |-> "provider_profile",
         event_count |-> "1", patient_count |-> "1"])

\* the documents of the index
Corpus == {EventA, EventB, EventOther, ProfilePatient, ProfileProvider}

Range(seq) == {seq[i] : i \in 1..Len(seq)}

Contents(docs) == {docs[i].page_content : i \in 1..Len(docs)}

Min(a, b) == IF a <= b THEN a ELSE b

\* the sequences of at most n distinct elements of S
RECURSIVE DistinctSeqs(_, _)
DistinctSeqs(S, n) ==
    IF n = 0 THEN {<<>>}
    ELSE LET shorter == DistinctSeqs(S, n - 1)
         IN  shorter \cup UNION {{Append(r, d) : d \in S \ Range(r)} : r \in shorter}

\* no filter argument
NoFilter == <<>>

\* filter={key: value}
Filter1(key, value) == [k \in {key} |-> value]

\* filter={key1: value1, key2: value2}
Filter2(key1, value1, key2, value2) ==
    [k \in {key1, key2} |-> IF k = key1 THEN value1 ELSE value2]

\* the store's filter: every key of the filter is in the metadata with that value
Matches(doc, filter) ==
    \A key \in DOMAIN filter : key \in DOMAIN doc.metadata /\ doc.metadata[key] = filter[key]

\* what similarity_search / max_marginal_relevance_search may return
SearchResults(filter, k) ==
    DistinctSeqs({d \in Corpus : Matches(d, filter)}, Min(k, MaxHits))

\* the exceptions a store call raises in the model
StoreErrors == {"RuntimeError"}

(***************************************************************************)
(* hash(doc.page_content): a polynomial hash over the characters, of the   *)
(* width HashMod.                                                          *)
(***************************************************************************)
HashMod == 32749

CharTable == " .:,0123456789abcdefghijklmnopqrstuvwxyzABCDEFGHIJKLMNOPQRSTUVWXYZ?"

Ord(c) == IF \E i \in 1..Len(CharTable) : Ch(CharTable, i) = c
          THEN CHOOSE i \in 1..Len(CharTable) : Ch(CharTable, i) = c
          ELSE 0

\* 31^n in the width of the hash
RECURSIVE Pow31(_)
Pow31(n) ==
    IF n = 0 THEN 1
    ELSE LET half == Pow31(n \div 2)
         IN  (((half * half) % HashMod) * (IF n % 2 = 1 THEN 31 ELSE 1)) % HashMod

\* the hash of s[lo..hi]: the sum of Ord(s[i]) * 31^(hi - i), by halves
RECURSIVE HashRange(_, _, _)
HashRange(s, lo, hi) ==
    IF lo > hi THEN 0
    ELSE IF lo = hi THEN Ord(Ch(s, lo)) % HashMod
    ELSE LET mid == (lo + hi) \div 2
         IN  (HashRange(s, lo, mid) * Pow31(hi - mid) + HashRange(s, mid + 1, hi)) % HashMod

HashTable == [c \in {d.page_content : d \in Corpus} |-> HashRange(c, 1, Len(c))]

\* hash(content)
Hash(content) ==
    IF content \in DOMAIN HashTable THEN HashTable[content]
    ELSE HashRange(content, 1, Len(content))

(***************************************************************************)
(* The accumulation loop shared by the strategies:                         *)
(*     content_hash = hash(doc.page_content)                               *)
(*     if content_hash not in seen_content: add it, append the doc         *)
(***************************************************************************)
Acc(docs, seen) == [all_docs |-> docs, seen_content |-> seen]

\* the loop body without the membership test: what C1 would not survive
AddDocUnchecked(acc, doc) ==
    Acc(Append(acc.all_docs, doc), acc.seen_content \cup {Hash(doc.page_content)})

\* a loop that keeps the copy seen last: what C21 would not survive
AddDocLastWins(acc, doc) ==
    IF Hash(doc.page_content) \notin acc.seen_content
    THEN Acc(Append(acc.all_docs, doc), acc.seen_content \cup {Hash(doc.page_content)})
    ELSE Acc([i \in 1..Len(acc.all_docs) |->
                 IF acc.all_docs[i].page_content = doc.page_content THEN doc ELSE acc.all_docs[i]],
             acc.seen_content)

AddDoc(acc, doc) ==
    IF Hash(doc.page_content) \notin acc.seen_content
    THEN Acc(Append(acc.all_docs, doc), acc.seen_content \cup {Hash(doc.page_content)})
    ELSE Acc(acc.all_docs, acc.seen_content)

RECURSIVE AddDocsFrom(_, _, _)
AddDocsFrom(sofar, docs, i) ==
    IF i > Len(docs) THEN sofar
    ELSE LET added == AddDoc(sofar, docs[i]) IN AddDocsFrom(added, docs, i + 1)

\* for doc in docs: ...
AddDocs(acc, docs) == AddDocsFrom(acc, docs, 1)

(***************************************************************************)
(* The keyword sweep's test.                                               *)
(***************************************************************************)
\* str.split(): the maximal runs of characters that are not white space
RECURSIVE SplitFrom(_, _, _)
SplitFrom(s, i, word) ==
    IF i > Len(s) THEN (IF word = "" THEN <<>> ELSE <<word>>)
    ELSE IF IsSpace(Ch(s, i))
         THEN (IF word = "" THEN <<>> ELSE <<word>>) \o SplitFrom(s, i + 1, "")
         ELSE SplitFrom(s, i + 1, word \o Ch(s, i))

Split(s) == SplitFrom(s, 1, "")

\* keywords = [w for w in query.lower().split() if len(w) > 2]
Keywords(query) == {w \in Range(Split(Lower(query))) : Len(w) > 2}

\* any(kw in content_lower for kw in keywords)
KeywordHit(query, content) == \E kw \in Keywords(query) : Contains(Lower(content), kw)

\* a sweep that keeps keyword matches only: what C9 would not survive
KeepKeywordHitsOnly(hit, doc) == hit

\* the test of strategy 3: a keyword matches, or the document is an event
KeepInSweep(hit, doc) == hit \/ MetaGet(doc, "type") = "event"

(***************************************************************************)
(* fuzzy_match_score.  fuzz.token_set_ratio and fuzz.partial_ratio are     *)
(* library calls that return integers in 0..100; the model draws the pair  *)
(* for a text from ScorePairs.  The combined score is a double: it is kept *)
(* as its exact value in tenths and the sign of the double's rounding      *)
(* error, which decides comparisons between equal exact values.            *)
(***************************************************************************)
\* <<token_set_score, partial_score>>
ScorePairs == {<<100, 100>>, <<50, 50>>, <<53, 43>>, <<30, 20>>}

\* sign of  (t * 0.7 + p * 0.3 as a double)  minus  (7t + 3p) / 10,  where
\* the exact sum is an integer, the only case in which the rounding decides
\* a comparison with an integer threshold:
\* 53 * 0.7 + 43 * 0.3 evaluates to 49.99999999999999
\* the pairs in 0..100 whose weighted sum is an integer that the double
\* arithmetic misses from below; no such sum is missed from above
RoundsDown ==
    {<<1, 31>>, <<1, 41>>, <<1, 51>>, <<2, 62>>, <<2, 72>>, <<2, 82>>, <<2, 92>>, <<3, 3>>,
     <<6, 6>>, <<6, 36>>, <<7, 57>>, <<7, 67>>, <<7, 77>>, <<7, 87>>, <<11, 1>>, <<12, 2>>,
     <<12, 12>>, <<12, 22>>, <<12, 62>>, <<12, 72>>, <<14, 4>>, <<17, 7>>, <<17, 57>>,
     <<17, 67>>, <<19, 9>>, <<22, 2>>, <<23, 3>>, <<23, 13>>, <<23, 23>>, <<23, 53>>,
     <<24, 4>>, <<24, 14>>, <<24, 24>>, <<24, 34>>, <<24, 44>>, <<28, 8>>, <<28, 18>>,
     <<29, 9>>, <<29, 19>>, <<29, 29>>, <<29, 39>>, <<33, 3>>, <<33, 13>>, <<33, 23>>,
     <<34, 4>>, <<34, 14>>, <<34, 24>>, <<38, 8>>, <<38, 18>>, <<39, 9>>, <<43, 3>>, <<44, 4>>,
     <<46, 6>>, <<46, 16>>, <<46, 26>>, <<46, 36>>, <<46, 46>>, <<46, 96>>, <<48, 8>>,
     <<48, 18>>, <<48, 28>>, <<48, 38>>, <<48, 48>>, <<48, 58>>, <<48, 68>>, <<48, 78>>,
     <<48, 88>>, <<48, 98>>, <<51, 1>>, <<51, 11>>, <<51, 21>>, <<51, 31>>, <<51, 41>>,
     <<51, 51>>, <<53, 3>>, <<53, 13>>, <<53, 23>>, <<53, 33>>, <<53, 43>>, <<53, 53>>,
     <<53, 63>>, <<53, 73>>, <<53, 83>>, <<56, 6>>, <<56, 16>>, <<56, 26>>, <<56, 36>>,
     <<56, 46>>, <<58, 8>>, <<58, 18>>, <<58, 28>>, <<58, 38>>, <<58, 48>>, <<58, 58>>,
     <<58, 68>>, <<58, 78>>, <<61, 1>>, <<61, 11>>, <<61, 21>>, <<61, 31>>, <<61, 41>>,
     <<61, 51>>, <<63, 3>>, <<63, 13>>, <<63, 23>>, <<63, 33>>, <<63, 43>>, <<63, 53>>,
     <<63, 63>>, <<66, 6>>, <<66, 16>>, <<66, 26>>, <<66, 36>>, <<66, 46>>, <<68, 8>>,
     <<68, 18>>, <<68, 28>>, <<68, 38>>, <<68, 48>>, <<71, 1>>, <<71, 11>>, <<71, 21>>,
     <<71, 31>>, <<71, 41>>, <<73, 3>>, <<73, 13>>, <<73, 23>>, <<73, 33>>, <<73, 43>>,
     <<76, 6>>, <<76, 16>>, <<76, 26>>, <<76, 36>>, <<78, 8>>, <<78, 18>>, <<78, 28>>,
     <<81, 1>>, <<81, 11>>, <<81, 21>>, <<83, 3>>, <<83, 13>>, <<85, 5>>, <<85, 15>>,
     <<86, 6>>, <<88, 8>>, <<90, 0>>, <<91, 1>>, <<92, 2>>, <<92, 12>>, <<92, 22>>, <<92, 32>>,
     <<92, 42>>, <<92, 52>>, <<92, 62>>, <<92, 72>>, <<92, 82>>, <<92, 92>>, <<96, 6>>,
     <<96, 16>>, <<96, 26>>, <<96, 36>>, <<96, 46>>, <<96, 56>>, <<96, 66>>, <<96, 76>>,
     <<96, 86>>, <<96, 96>>, <<97, 7>>, <<97, 17>>, <<97, 27>>, <<97, 37>>, <<97, 47>>,
     <<97, 57>>, <<97, 67>>, <<97, 77>>, <<97, 87>>, <<97, 97>>}

RoundingSign(t, p) == IF <<t, p>> \in RoundsDown THEN -1 ELSE 0

Score(tenths, sign) == [tenths |-> tenths, sign |-> sign]

ScoreZero == Score(0, 0)

\* a < b, for scores
ScoreLess(a, b) == a.tenths < b.tenths \/ (a.tenths = b.tenths /\ a.sign < b.sign)

\* combined_score if combined_score >= threshold else 0
fuzzy_match_score(pair, threshold) ==
    LET combined == Score(7 * pair[1] + 3 * pair[2], RoundingSign(pair[1], pair[2]))
    IN  IF ScoreLess(combined, Score(10 * threshold, 0)) THEN ScoreZero ELSE combined

Scored(doc, score) == [doc |-> doc, score |-> score]

\* list.sort(key=lambda x: x[1], reverse=True): stable, so equal scores keep
\* their order; x goes before the first element with a smaller score
RECURSIVE InsertByScore(_, _)
InsertByScore(sorted, x) ==
    IF sorted = <<>> THEN <<x>>
    ELSE IF ScoreLess(Head(sorted).score, x.score) THEN <<x>> \o sorted
    ELSE <<Head(sorted)>> \o InsertByScore(Tail(sorted), x)

RECURSIVE SortByScoreFrom(_, _, _)
SortByScoreFrom(sorted, scored, i) ==
    IF i > Len(scored) THEN sorted
    ELSE SortByScoreFrom(InsertByScore(sorted, scored[i]), scored, i + 1)

\* a ranking that leaves the list as it is
Unsorted(scored) == scored

SortByScore(scored) == SortByScoreFrom(<<>>, scored, 1)

\* [(doc, fuzzy_match_score(query, doc.page_content, threshold)) for doc in docs]
ScoreDocs(docs, pairOf, threshold) ==
    [i \in 1..Len(docs) |-> Scored(docs[i], fuzzy_match_score(pairOf[docs[i].page_content], threshold))]

\* [doc for doc, score in scored]
DocsOf(scored) == [i \in 1..Len(scored) |-> scored[i].doc]

\* candidates taken as the store lists them: the first 50 with a score > 0
FirstCandidates(docs, pairOf) ==
    LET scored      == ScoreDocs(docs, pairOf, 50)
        IsPositive(x) == ScoreLess(ScoreZero, x.score)
        scored_docs == SelectSeq(scored, IsPositive)
    IN  DocsOf(SubSeq(scored_docs, 1, Min(50, Len(scored_docs))))

\* the candidates of strategy 3.5: score > 0 at threshold 50, best first, top 50
FuzzyCandidates(docs, pairOf) ==
    LET scored      == ScoreDocs(docs, pairOf, 50)
        IsPositive(x) == ScoreLess(ScoreZero, x.score)
        scored_docs == SortByScore(SelectSeq(scored, IsPositive))
    IN  DocsOf(SubSeq(scored_docs, 1, Min(50, Len(scored_docs))))

\* the unscoped final ranking: every document scored at threshold 0, best first
FuzzyRanking(docs, pairOf) == DocsOf(SortByScore(ScoreDocs(docs, pairOf, 0)))

\* a final ordering that leaves the accumulation order: what C2 would not survive
AccumulationOrder(docs) == docs

\* a final ordering that returns the events alone: what C23 would not survive
EventsOnly(docs) ==
    LET IsEvent(d) == MetaGet(d, "type") = "event"
    IN  SelectSeq(docs, IsEvent)

\* the scoped final ordering: event_docs + profile_docs
EventFirst(docs) ==
    LET IsEvent(d)  == MetaGet(d, "type") = "event"
        NotEvent(d) == MetaGet(d, "type") # "event"
    IN  SelectSeq(docs, IsEvent) \o SelectSeq(docs, NotEvent)

(***************************************************************************)
(* The answer step.                                                        *)
(***************************************************************************)
\* Optional[int]: <<>> is None, <<n>> is n
NoInt == <<>>

SomeInt(n) == <<n>>

\* docs[:n]
SliceTo(docs, n) ==
    IF n = NoInt THEN docs
    ELSE IF n[1] >= 0 THEN SubSeq(docs, 1, Min(n[1], Len(docs)))
    ELSE SubSeq(docs, 1, IF Len(docs) + n[1] > 0 THEN Len(docs) + n[1] ELSE 0)

\* "\n\n".join([doc.page_content for doc in docs])
RECURSIVE JoinFrom(_, _)
JoinFrom(docs, i) ==
    IF i > Len(docs) THEN ""
    ELSE IF i = Len(docs) THEN docs[i].page_content
    ELSE docs[i].page_content \o "\n\n" \o JoinFrom(docs, i + 1)

Context(docs) == JoinFrom(docs, 1)

\* a caller without the empty check: what C5 would not survive
NeverEmpty(docs) == FALSE

\* if len(retrieved_docs) == 0: the fixed answer, without a completion
NoDocuments(docs) == Len(docs) = 0

FixedAnswer == "I don't know - no relevant documents found."

\* response.content: whatever the completion service answers
Completion == "<completion>"

\* the classes  except Exception  catches
CaughtClasses == {"RuntimeError", "ValueError", "TypeError", "OverflowError"}

\* a strategy without its except clause: what C3 would not survive
CatchesNothing(exc) == FALSE

\* the except clause of a strategy
StrategyCatches(exc) == exc \in CaughtClasses

(***************************************************************************)
(* State.                                                                  *)
(*                                                                         *)
(* One query at a time goes through the query flow of a variant: the loop  *)
(* body of RagAPP.main, or api.query_database.                             *)
(*   variant, query, max_results   the program and the request             *)
(*   vectorstore, llm              the globals the service start-up sets:  *)
(*                                 a handle, or None when loading failed   *)
(*   pc                            the statement the flow is at            *)
(*   actor_type, actor_id          what detect_query_actor returned        *)
(*   detected                      history: detect_query_actor was called  *)
(*   store_log                     history: the searches asked of the      *)
(*                                 store for this query, in order          *)
(*   rank_scores                   history: the library scores the final   *)
(*                                 ranking saw (kept by RankObserved)      *)
(*   http                          the response of api.py                  *)
(*   all_docs, seen_content        the retriever's accumulation            *)
(*   all_actor_docs, profile_docs  what the store returned to the keyword  *)
(*                                 sweep and to the profile search         *)
(*   raised                        the strategies whose except clause ran  *)
(*   contributed                   history: the texts that the strategies  *)
(*                                 which completed handed to accumulation  *)
(*   offers                        history: each document handed to the    *)
(*                                 accumulation loop, with the strategy,   *)
(*                                 and whether it came first of its text   *)
(*                                 (kept in SpecAccumulate only)           *)
(*   retrieved_docs                what get_relevant_documents returned    *)
(*   llm_calls                     the contexts llm.invoke was called with *)
(*   answer, status, failure       how the query was answered, and the     *)
(*                                 call whose exception ended it           *)
(*                                                                         *)
(* nvalue, npc, nres1, nres2: one value put through normalize_id twice.    *)
(***************************************************************************)
VARIABLES variant, query, max_results, vectorstore, llm, pc, actor_type, actor_id, detected,
          all_docs, seen_content, all_actor_docs, profile_docs, raised, contributed,
          offers, store_log, rank_scores,
          retrieved_docs, llm_calls, answer, status, failure, http,
          nvalue, npc, nres1, nres2

requestVars == <<variant, query, max_results, vectorstore, llm>>

actorVars == <<actor_type, actor_id, detected>>

retrieverVars == <<all_docs, seen_content, all_actor_docs, profile_docs, raised, contributed,
                   offers>>

answerVars == <<retrieved_docs, llm_calls, answer, status, failure, http>>

flowVars == <<requestVars, pc, actorVars, retrieverVars, store_log, rank_scores, answerVars>>

normVars == <<nvalue, npc, nres1, nres2>>

(***************************************************************************)
(* Two POST /query requests in flight at once (api.py):                    *)
(*   inflight       the local state of each request's handler              *)
(*   seen_by        the seen_content set of each retriever call            *)
(*   index_order    the store: its documents, in the order it ranks them   *)
(*   broken         the strategies whose store call raises                 *)
(*   score_answers  the scores the fuzzy library has given so far, as      *)
(*                  <<query, content, pair>>: the library is a function    *)
(***************************************************************************)
VARIABLES inflight, seen_by, index_order, broken, score_answers

concVars == <<inflight, seen_by, index_order, broken, score_answers>>

ConcIdle ==
    /\ inflight = <<>>
    /\ seen_by = <<>>
    /\ index_order = <<>>
    /\ broken = {}
    /\ score_answers = {}

(***************************************************************************)
(* The debug command of RagAPP.py and GET /debug/{actor_type}/{actor_id}   *)
(* of api.py:                                                              *)
(*   debug_variant      the program                                        *)
(*   debug_input        the actor type and id as typed or as in the path   *)
(*   debug_vectorstore  the global of api.py                               *)
(*   debug_pc           "in" before, "done" after                          *)
(*   debug_filter       the filter handed to the store, NoFilter if none   *)
(*   debug_docs         what the store returned                            *)
(*   debug_status       what the user was told                             *)
(***************************************************************************)
VARIABLES debug_variant, debug_input, debug_vectorstore, debug_pc, debug_filter, debug_docs,
          debug_status

debugVars == <<debug_variant, debug_input, debug_vectorstore, debug_pc, debug_filter,
               debug_docs, debug_status>>

DebugIdle ==
    /\ debug_variant = "RagAPP"
    /\ debug_input = <<>>
    /\ debug_vectorstore = "<handle>"
    /\ debug_pc = "idle"
    /\ debug_filter = <<>>
    /\ debug_docs = <<>>
    /\ debug_status = "idle"

(***************************************************************************)
(* expand_query applied to one query:                                      *)
(*   expand_input   the query                                              *)
(*   expand_pc      "in" before the call, "done" after                     *)
(*   expand_output  what the call returned                                 *)
(***************************************************************************)
VARIABLES expand_input, expand_pc, expand_output

expandVars == <<expand_input, expand_pc, expand_output>>

ExpandIdle ==
    /\ expand_input = ""
    /\ expand_pc = "idle"
    /\ expand_output = ""

(***************************************************************************)
(* fuzzy_match_score applied to one query and one text:                    *)
(*   score_query, score_text, score_threshold   the arguments              *)
(*   score_pc      "in" before the call, "done" after                      *)
(*   score_pair    what the two library calls returned                     *)
(*   score_result  what the call returned                                  *)
(***************************************************************************)
VARIABLES score_query, score_text, score_threshold, score_pc, score_pair, score_result

scoreVars == <<score_query, score_text, score_threshold, score_pc, score_pair, score_result>>

ScoreIdle ==
    /\ score_query = ""
    /\ score_text = ""
    /\ score_threshold = 60
    /\ score_pc = "idle"
    /\ score_pair = <<0, 0>>
    /\ score_result = [tenths |-> 0, sign |-> 0]

(***************************************************************************)
(* The fuzzy strategy against a store with many documents of one actor:    *)
(*   fuzzy_out    what the store answers the strategy's search             *)
(*   fuzzy_pairs  the library's pair for each content                      *)
(***************************************************************************)
VARIABLES fuzzy_out, fuzzy_pairs

fuzzyVars == <<fuzzy_out, fuzzy_pairs>>

FuzzyIdle ==
    /\ fuzzy_out = [ok |-> TRUE, docs |-> <<>>]
    /\ fuzzy_pairs = <<>>

(***************************************************************************)
(* The service of api.py from its start to its shutdown:                   *)
(*   service             where the process is: "start", "index", "llm"     *)
(*                       (the steps of lifespan), "serving", "failed"      *)
(*                       (lifespan raised), "stopped", or "none"           *)
(*   embedding_function  the third global of api.py                        *)
(*   health              the last answer of GET /, GET /health, GET /stats *)
(*   served              how many POST /query requests have arrived        *)
(* The globals vectorstore and llm and the response http are the ones of   *)
(* the query flow.                                                         *)
(***************************************************************************)
VARIABLES service, embedding_function, health, served

serviceVars == <<service, embedding_function, health, served>>

\* no answer of a health endpoint yet
NoHealth ==
    [endpoint |-> "", status_code |-> 0, database_loaded |-> FALSE, llm_connected |-> FALSE]

ServiceIdle ==
    /\ service = "none"
    /\ embedding_function = "<None>"
    /\ health = NoHealth
    /\ served = 0

(***************************************************************************)
(* pipeline.py, one run of main:                                           *)
(*   pipeline_pc    "loop" (at the for statement), "running" (inside       *)
(*                  subprocess.run), "returned" (run_command returned),    *)
(*                  "exited", or "none"                                    *)
(*   step           the place in pipeline_steps of the step at hand        *)
(*   success_count  the counter of main                                    *)
(*   success        what run_command returned last                         *)
(*   started        history: the steps whose command was started           *)
(*   results        history: how each started command ended                *)
(*   exit_status    the exit status of the process, -1 while it runs       *)
(*   summary        "PIPELINE EXECUTION SUCCESSFUL" was printed            *)
(***************************************************************************)
VARIABLES pipeline_pc, step, success_count, success, started, results, exit_status, summary

pipelineVars == <<pipeline_pc, step, success_count, success, started, results, exit_status, summary>>

PipelineIdle ==
    /\ pipeline_pc = "none"
    /\ step = 0
    /\ success_count = 0
    /\ success = FALSE
    /\ started = <<>>
    /\ results = <<>>
    /\ exit_status = -1
    /\ summary = FALSE

(***************************************************************************)
(* process_staging_to_production.py, one run of run_all_processing over    *)
(* staging_conditions, the table it passes to process_generic_table twice: *)
(*   loader_pc          "select", "loop", "commit", "done", "failed" (the  *)
(*                      except clause of run_all_processing), or "none"    *)
(*   pass               the call of process_generic_table at hand: 1 or 2  *)
(*   items              the rows the SELECT of this call fetched, by       *)
(*                      staging_id, not yet gone through                   *)
(*   extraction_status  the column of staging_conditions, by staging_id,   *)
(*                      as this connection sees it                         *)
(*   conditions         production table: how many rows this run inserted  *)
(*                      for each staging_id                                *)
(*   committed          both tables as of the last commit                  *)
(*   selected           history: the rows each call selected               *)
(*   inserts            history: the rows whose INSERT each call executed  *)
(*                      without an exception                               *)
(***************************************************************************)
VARIABLES loader_pc, pass, items, extraction_status, conditions, committed, selected, inserts

loaderVars == <<loader_pc, pass, items, extraction_status, conditions, committed, selected, inserts>>

LoaderIdle ==
    /\ loader_pc = "none"
    /\ pass = 0
    /\ items = <<>>
    /\ extraction_status = <<>>
    /\ conditions = <<>>
    /\ committed = <<>>
    /\ selected = <<>>
    /\ inserts = <<>>

(***************************************************************************)
(* extract_to_staging_db.py, process_report on one report:                 *)
(*   extractor_pc    "patient", "encounter", "children", "done" (stats     *)
(*                   returned after the child tables, or {} for a report   *)
(*                   without text), "stopped" (stats returned after the    *)
(*                   patient), "raised", or "none"                         *)
(*   patient_data    patient_data['id'], None before step 1                *)
(*   encounter_data  encounter_data['id'], None before step 2              *)
(*   child           the place in child_tables of the table at hand        *)
(*   staging         the rows of the staging tables that are committed,    *)
(*                   in the order of their INSERT                          *)
(*   stats           the dictionary process_report returns, as a sequence  *)
(*                   of <<key, count>> in the order the keys are set       *)
(***************************************************************************)
VARIABLES extractor_pc, patient_data, encounter_data, child, staging, stats

extractorVars == <<extractor_pc, patient_data, encounter_data, child, staging, stats>>

ExtractorIdle ==
    /\ extractor_pc = "none"
    /\ patient_data = None
    /\ encounter_data = None
    /\ child = 0
    /\ staging = <<>>
    /\ stats = <<>>

(***************************************************************************)
(* scripts/04_parse_sql.py, one call of execute_sql_file_robust:           *)
(*   sql_pc             "connect", "loop", "commit", "finally",            *)
(*                      "returned", or "none"                              *)
(*   conn               "unbound" (connect raised), "open", "lost" (the    *)
(*                      server went away: is_connected() is False), or     *)
(*                      "closed"                                           *)
(*   statements         len(statements)                                    *)
(*   idx                the statement the loop is at                       *)
(*   executed           history: <<idx, worked>> of every statement        *)
(*                      handed to cursor.execute, in the order of the      *)
(*                      calls                                              *)
(*   sql_success_count  success_count                                      *)
(*   error_count        error_count                                        *)
(*   stopped            the break of the loop was taken                    *)
(*   commit_called      conn.commit(): "no", "worked" or "raised"            *)
(*   in_database        the statements whose effect is committed           *)
(***************************************************************************)
VARIABLES sql_pc, conn, statements, idx, executed, sql_success_count, error_count,
          stopped, commit_called, in_database

sqlVars ==
    <<sql_pc, conn, statements, idx, executed, sql_success_count, error_count,
      stopped, commit_called, in_database>>

SqlIdle ==
    /\ sql_pc = "none"
    /\ conn = "unbound"
    /\ statements = 0
    /\ idx = 0
    /\ executed = <<>>
    /\ sql_success_count = 0
    /\ error_count = 0
    /\ stopped = FALSE
    /\ commit_called = "no"
    /\ in_database = {}

\* the variables of the specifications added after these
laterVars == <<serviceVars, pipelineVars, loaderVars, extractorVars, sqlVars>>

\* what the steps of each of them leave alone
besideService == <<normVars, concVars, debugVars, expandVars, scoreVars, fuzzyVars, pipelineVars, loaderVars, extractorVars, sqlVars>>

restOfPipeline == <<flowVars, normVars, concVars, debugVars, expandVars, scoreVars, fuzzyVars, serviceVars, loaderVars, extractorVars, sqlVars>>

restOfLoader == <<flowVars, normVars, concVars, debugVars, expandVars, scoreVars, fuzzyVars, serviceVars, pipelineVars, extractorVars, sqlVars>>

restOfExtractor == <<flowVars, normVars, concVars, debugVars, expandVars, scoreVars, fuzzyVars, serviceVars, pipelineVars, loaderVars, sqlVars>>

restOfSql == <<flowVars, normVars, concVars, debugVars, expandVars, scoreVars, fuzzyVars, serviceVars, pipelineVars, loaderVars, extractorVars>>

\* the variables of the specifications added to the first two
otherVars == <<concVars, debugVars, expandVars, scoreVars, fuzzyVars, laterVars>>

\* what the actions of each of them leave alone
restOfConcurrent == <<flowVars, normVars, debugVars, expandVars, scoreVars, fuzzyVars, laterVars>>

restOfDebug == <<flowVars, normVars, concVars, expandVars, scoreVars, fuzzyVars, laterVars>>

restOfExpand == <<flowVars, normVars, concVars, debugVars, scoreVars, fuzzyVars, laterVars>>

restOfScore == <<flowVars, normVars, concVars, debugVars, expandVars, fuzzyVars, laterVars>>

\* the variables of the specifications that stand beside the query flow
pureVars == <<normVars, otherVars>>

\* the variables of the other specifications rest while g runs
OthersIdle(g) ==
    /\ IF g = "concurrent" THEN TRUE ELSE ConcIdle
    /\ IF g = "debug" THEN TRUE ELSE DebugIdle
    /\ IF g = "expand" THEN TRUE ELSE ExpandIdle
    /\ IF g = "score" THEN TRUE ELSE ScoreIdle
    /\ IF g = "fuzzy" THEN TRUE ELSE FuzzyIdle
    /\ IF g = "service" THEN TRUE ELSE ServiceIdle
    /\ IF g = "pipeline" THEN TRUE ELSE PipelineIdle
    /\ IF g = "loader" THEN TRUE ELSE LoaderIdle
    /\ IF g = "extractor" THEN TRUE ELSE ExtractorIdle
    /\ IF g = "sql" THEN TRUE ELSE SqlIdle

vars == <<flowVars, pureVars>>

\* a loaded index, a connected model
Handle == "<handle>"

\* no response sent (yet); RagAPP.py sends none
NoResponse == [status_code |-> 0, detail |-> ""]

Response(code, detail) == [status_code |-> code, detail |-> detail]

\* no score seen
NoScores == <<>>

\* the history of offers, not kept
NoOffers == [kept |-> FALSE, made |-> {}]

\* the history of offers before the first strategy, kept
OffersKept == [kept |-> TRUE, made |-> {}]

(***************************************************************************)
(* normalize_id applied to a value, and again to its own result.           *)
(***************************************************************************)
\* the characters of the generated strings: digits, a sign, a decimal point, an
\* exponent mark, the letters of "inf" and "nan", white space and another letter
NormAlphabet == {"0", "3", ".", "-", "e", "i", "n", "f", "a", " ", "x"}

RECURSIVE StringsUpTo(_)
StringsUpTo(n) ==
    IF n = 0 THEN {""}
    ELSE LET S == StringsUpTo(n - 1) IN S \cup {s \o c : s \in S, c \in NormAlphabet}

\* longer texts of interest
NormTexts == {"1e3", "3.0", "3.7", "-0.5", " 3 ", "003", "1e400", "-1e400", "infinity",
              "-inf", "INF", "NaN", "+3", "3e-1", "patient", "1000", "12.50"}

NormNumbers ==
    {PyNone, PyInt(FALSE, "3"), PyInt(FALSE, "0"), PyInt(TRUE, "3"), PyInt(FALSE, "1000"),
     PyFloat(Fin(FALSE, "3", FALSE, TRUE)), PyFloat(Fin(FALSE, "3", TRUE, TRUE)),
     PyFloat(Fin(TRUE, "0", TRUE, TRUE)), PyFloat(NaN), PyFloat(Inf(FALSE)), PyFloat(Inf(TRUE))}

\* a text is in scope unless it denotes a finite number that a double rounds
InScope(value) == LET f == ToFloat(value) IN f.cls = "fin" => f.exact

NormInputs ==
    {v \in {PyStr(s) : s \in StringsUpTo(MaxLen) \cup NormTexts} \cup NormNumbers : InScope(v)}

NormIdle ==
    /\ nvalue = PyNone
    /\ npc = "idle"
    /\ nres1 = Returned("")
    /\ nres2 = Returned("")

FlowIdle ==
    /\ variant = "RagAPP"
    /\ query = ""
    /\ max_results = NoInt
    /\ vectorstore = Handle
    /\ llm = Handle
    /\ pc = "idle"
    /\ actor_type = None
    /\ actor_id = None
    /\ detected = FALSE
    /\ store_log = <<>>
    /\ rank_scores = NoScores
    /\ http = NoResponse
    /\ all_docs = <<>>
    /\ seen_content = {}
    /\ all_actor_docs = <<>>
    /\ profile_docs = <<>>
    /\ raised = {}
    /\ contributed = {}
    /\ offers = NoOffers
    /\ retrieved_docs = <<>>
    /\ llm_calls = <<>>
    /\ answer = None
    /\ status = "idle"
    /\ failure = None

InitNormalize ==
    /\ nvalue \in NormInputs
    /\ npc = "in"
    /\ nres1 = Returned("")
    /\ nres2 = Returned("")
    /\ FlowIdle
    /\ OthersIdle("normalize")

\* r = normalize_id(x)
NormalizeOnce ==
    /\ npc = "in"
    /\ nres1' = normalize_id(nvalue)
    /\ npc' = "once"
    /\ UNCHANGED <<nvalue, nres2, flowVars, otherVars>>

\* normalize_id(r), for the r a first call returned
NormalizeAgain ==
    /\ npc = "once"
    /\ nres1.ok
    /\ nres2' = normalize_id(PyStr(nres1.s))
    /\ npc' = "twice"
    /\ UNCHANGED <<nvalue, nres1, flowVars, otherVars>>

NextNormalize == NormalizeOnce \/ NormalizeAgain

SpecNormalize == InitNormalize /\ [][NextNormalize]_vars

(***************************************************************************)
(* The query flow.                                                         *)
(***************************************************************************)
Variants == {"RagAPP", "api"}

\* n nines
RECURSIVE Nines(_)
Nines(n) ==
    IF n = 0 THEN ""
    ELSE LET half == Nines(n \div 2) IN half \o half \o (IF n % 2 = 1 THEN "9" ELSE "")

\* an id that float() takes to inf
BigId == Nines(FloatMaxDigits)

\* the queries put to the flow
FlowQueries ==
    {"What medications does patient 3 have?",
     "Tell me about doctor 1",
     "Status of patient 9",
     "Which patient had surgery",
     "Show all diabetes cases",
     "patient " \o BigId}

\* max_results of a QueryRequest (default 100); RagAPP.main slices with [:100]
MaxResultsOf(v) ==
    IF v = "api" THEN {NoInt, SomeInt(100), SomeInt(1), SomeInt(0), SomeInt(-1)}
    ELSE {SomeInt(100)}

\* a fresh retriever: all_docs = [], seen_content = set()
FreshRetriever ==
    /\ all_docs = <<>>
    /\ seen_content = {}
    /\ all_actor_docs = <<>>
    /\ profile_docs = <<>>
    /\ raised = {}
    /\ contributed = {}
    /\ offers = NoOffers
    /\ store_log = <<>>
    /\ rank_scores = NoScores

FreshAnswer ==
    /\ retrieved_docs = <<>>
    /\ llm_calls = <<>>
    /\ answer = None
    /\ status = "pending"
    /\ failure = None
    /\ http = NoResponse

\* what start-up may leave in a global: RagAPP.main goes on only with both
\* loaded, the lifespan of api.py sets None when loading raised
HandlesOf(v) == IF v = "api" THEN {Handle, None} ELSE {Handle}

InitFlow ==
    /\ variant \in Variants
    /\ query \in FlowQueries
    /\ max_results \in MaxResultsOf(variant)
    /\ vectorstore \in HandlesOf(variant)
    /\ llm \in HandlesOf(variant)
    /\ pc = "detect"
    /\ actor_type = None
    /\ actor_id = None
    /\ detected = FALSE
    /\ FreshRetriever
    /\ FreshAnswer

Init == InitFlow /\ NormIdle /\ OthersIdle("flow")

\* a retriever that scopes on the actor type alone: what C22 would not survive
ScopedByType == actor_type \notin {None, ""}

\* self.actor_type and self.actor_id
Scoped == actor_type \notin {None, ""} /\ actor_id \notin {None, ""}

\* a search without the actor filter: what C4 would not survive
Unfiltered == NoFilter

\* {filter_key: str(self.actor_id)}
ActorFilter == Filter1(actor_type \o "_id", actor_id)

\* {filter_key: str(self.actor_id), "type": f"{self.actor_type}_profile"}
ProfileFilter == Filter2(actor_type \o "_id", actor_id, "type", actor_type \o "_profile")

\* what a store call may do: return documents or raise
Returns(docs) == [ok |-> TRUE, docs |-> docs]

StoreCall(filter, k) ==
    {Returns(r) : r \in SearchResults(filter, k)} \cup {Raised(e) : e \in StoreErrors}

\* str(e) of the exceptions the model raises
StrOfException(exc) ==
    CASE exc = "OverflowError" -> "cannot convert float infinity to integer"
      [] exc = "RuntimeError" -> "store failure"
      [] OTHER -> "completion failure"

\* what leaves query_database when its try block raised: HTTP 500 with the
\* message; the loop of RagAPP.py prints the error and sends nothing
ErrorResponse(exc) ==
    IF variant = "api" THEN Response(500, "Query failed: " \o StrOfException(exc)) ELSE NoResponse

\* the response of a query_database that returned
OkResponse == IF variant = "api" THEN Response(200, "") ELSE NoResponse

\* one search asked of the store
Call(strategy, method, filter, k) ==
    [strategy |-> strategy, method |-> method, filter |-> filter, k |-> k, fetch_k |-> 0]

\* one max_marginal_relevance_search asked of the store
CallMMR(strategy, filter, k, fetch_k) ==
    [strategy |-> strategy, method |-> "max_marginal_relevance_search", filter |-> filter, k |-> k,
     fetch_k |-> fetch_k]

\* a service that never tests its globals
AlwaysReady == TRUE

\* both globals were set at start-up
Ready == vectorstore # None /\ llm # None

\* a document that a strategy hands to the accumulation loop; first tells
\* that no document before it in the strategy's list has the same text
Offer(strategy, first, doc) == [strategy |-> strategy, first |-> first, doc |-> doc]

\* the offers of the list kept, handed to the loop by strategy
OffersOf(strategy, kept) ==
    {Offer(strategy, \A j \in 1..(i - 1) : kept[j].page_content # kept[i].page_content, kept[i]) :
        i \in 1..Len(kept)}

\* the texts the completed strategy hands to the accumulation loop are added
Accumulate(kept, next) ==
    LET acc == AddDocs(Acc(all_docs, seen_content), kept)
    IN  /\ all_docs' = acc.all_docs
        /\ seen_content' = acc.seen_content
        /\ contributed' = contributed \cup Contents(kept)
        /\ offers' = IF offers.kept
                     THEN [offers EXCEPT !.made = @ \cup OffersOf(pc, kept)]
                     ELSE offers
        /\ pc' = next
        /\ UNCHANGED <<raised, answerVars>>

\* the strategy's call raised: its except clause prints and the next strategy
\* runs; an exception the clause does not catch leaves get_relevant_documents
Fail(label, exc, next) ==
    IF StrategyCatches(exc)
    THEN /\ raised' = raised \cup {label}
         /\ pc' = next
         /\ UNCHANGED <<all_docs, seen_content, contributed, offers, answerVars>>
    ELSE /\ pc' = "done"
         /\ status' = "error"
         /\ failure' = "get_relevant_documents"
         /\ http' = ErrorResponse(exc)
         /\ UNCHANGED <<all_docs, seen_content, contributed, offers, raised, retrieved_docs, llm_calls, answer>>

\* an if block whose condition is false
Skip(next) ==
    /\ pc' = next
    /\ UNCHANGED <<retrieverVars, answerVars>>

\* actor_type, actor_id = detect_query_actor(query); an exception ends the
\* query (HTTP 500 in api.py, the loop's except clause in RagAPP.py)
Detect ==
    /\ pc = "detect"
    /\ Ready
    /\ detected' = TRUE
    /\ LET r == detect_query_actor(variant, query)
       IN  IF r.ok
           THEN /\ actor_type' = r.actor_type
                /\ actor_id' = r.actor_id
                /\ pc' = "s1"
                /\ UNCHANGED <<status, failure, http>>
           ELSE /\ pc' = "done"
                /\ status' = "error"
                /\ failure' = "detect_query_actor"
                /\ http' = ErrorResponse(r.exc)
                /\ UNCHANGED <<actor_type, actor_id>>
    /\ UNCHANGED <<requestVars, retrieverVars, store_log, rank_scores, retrieved_docs, llm_calls, answer, pureVars>>

\* query_database with a global that is None: HTTP 503 before the try block
Unavailable ==
    /\ pc = "detect"
    /\ ~Ready
    /\ http' = IF vectorstore = None
               THEN Response(503, "Database not loaded. Please build the FAISS index first.")
               ELSE Response(503, "LLM not connected. Check your GROQ_API_KEY.")
    /\ pc' = "done"
    /\ status' = "error"
    /\ failure' = "query_database"
    /\ UNCHANGED <<requestVars, actorVars, retrieverVars, store_log, rank_scores, retrieved_docs, llm_calls, answer, pureVars>>

\* strategy 1: semantic search with the expanded query
Strategy1 ==
    /\ pc = "s1"
    /\ \E out \in IF Scoped THEN StoreCall(ActorFilter, 150) ELSE StoreCall(NoFilter, 100) :
          IF out.ok THEN Accumulate(out.docs, "s2") ELSE Fail("s1", out.exc, "s2")
    /\ store_log' = Append(store_log, IF Scoped THEN Call("s1", "similarity_search", ActorFilter, 150)
                                                 ELSE Call("s1", "similarity_search", NoFilter, 100))
    /\ UNCHANGED <<requestVars, actorVars, all_actor_docs, profile_docs, rank_scores, pureVars>>

\* strategy 2: max marginal relevance search with the query
Strategy2 ==
    /\ pc = "s2"
    /\ \E out \in IF Scoped THEN StoreCall(ActorFilter, 100) ELSE StoreCall(NoFilter, 50) :
          IF out.ok THEN Accumulate(out.docs, "s3") ELSE Fail("s2", out.exc, "s3")
    /\ store_log' = Append(store_log, IF Scoped THEN CallMMR("s2", ActorFilter, 100, 300)
                                                 ELSE CallMMR("s2", NoFilter, 50, 150))
    /\ UNCHANGED <<requestVars, actorVars, all_actor_docs, profile_docs, rank_scores, pureVars>>

\* strategy 3: the keyword sweep over the actor's documents
Strategy3 ==
    /\ pc = "s3"
    /\ IF Scoped
       THEN /\ \E out \in StoreCall(ActorFilter, 1000) :
                  IF out.ok
                  THEN LET Keep(d) == KeepInSweep(KeywordHit(query, d.page_content), d)
                       IN  /\ all_actor_docs' = out.docs
                           /\ Accumulate(SelectSeq(out.docs, Keep), "s35")
                  ELSE /\ Fail("s3", out.exc, "s35")
                       /\ UNCHANGED all_actor_docs
            /\ store_log' = Append(store_log, Call("s3", "similarity_search", ActorFilter, 1000))
       ELSE /\ Skip("s35")
            /\ UNCHANGED <<all_actor_docs, store_log>>
    /\ UNCHANGED <<requestVars, actorVars, profile_docs, rank_scores, pureVars>>

\* a retriever with strategies 4 and 5 in both programs
AlwaysProfiles == "s4"

\* where the flow goes after the fuzzy strategy: api.py has no strategy 4 and 5
AfterFuzzy == IF variant = "RagAPP" THEN "s4" ELSE "rank"

\* a fuzzy strategy that runs whenever an actor is set
FuzzyRunsWhenScoped == Scoped

\* if self.actor_type and self.actor_id and len(all_docs) < 50
FuzzyRuns == Scoped /\ Len(all_docs) < 50

\* strategy 3.5, for the store answer out and the library pairs pairOf
Strategy35By(out, pairOf) ==
    /\ pc = "s35"
    /\ IF FuzzyRuns
       THEN /\ IF out.ok
               THEN Accumulate(FuzzyCandidates(out.docs, pairOf), AfterFuzzy)
               ELSE Fail("s35", out.exc, AfterFuzzy)
            /\ store_log' = Append(store_log, Call("s35", "similarity_search", ActorFilter, 1000))
       ELSE /\ Skip(AfterFuzzy)
            /\ UNCHANGED store_log
    /\ UNCHANGED <<requestVars, actorVars, all_actor_docs, profile_docs, rank_scores, pureVars>>

\* the pairs the library may give for what the store returned
PairsFor(out) == IF out.ok THEN [Contents(out.docs) -> ScorePairs] ELSE {NoScores}

\* strategy 3.5: fuzzy matching, when fewer than 50 documents were collected
Strategy35 ==
    IF FuzzyRuns
    THEN \E out \in StoreCall(ActorFilter, 1000) : \E pairOf \in PairsFor(out) : Strategy35By(out, pairOf)
    ELSE Strategy35By(Returns(<<>>), NoScores)

\* strategy 4 (RagAPP.py): the actor's profile documents
Strategy4 ==
    /\ pc = "s4"
    /\ IF Scoped
       THEN /\ \E out \in StoreCall(ProfileFilter, 10) :
                  IF out.ok
                  THEN /\ profile_docs' = out.docs
                       /\ Accumulate(out.docs, "s5")
                  ELSE /\ Fail("s4", out.exc, "s5")
                       /\ UNCHANGED profile_docs
            /\ store_log' = Append(store_log, Call("s4", "similarity_search", ProfileFilter, 10))
       ELSE /\ Skip("s5")
            /\ UNCHANGED <<profile_docs, store_log>>
    /\ UNCHANGED <<requestVars, actorVars, all_actor_docs, rank_scores, pureVars>>

\* strategy 5 (RagAPP.py): an unfiltered search, keeping the documents that
\* carry the key related_<actor_type>
Strategy5 ==
    /\ pc = "s5"
    /\ IF Scoped
       THEN /\ \E out \in StoreCall(NoFilter, 50) :
                  IF out.ok
                  THEN LET Related(d) == ("related_" \o actor_type) \in DOMAIN d.metadata
                       IN  Accumulate(SelectSeq(out.docs, Related), "rank")
                  ELSE Fail("s5", out.exc, "rank")
            /\ store_log' = Append(store_log, Call("s5", "similarity_search", NoFilter, 50))
       ELSE /\ Skip("rank")
            /\ UNCHANGED store_log
    /\ UNCHANGED <<requestVars, actorVars, all_actor_docs, profile_docs, rank_scores, pureVars>>

\* the final ordering, returned to the caller
RankBy(pairOf) ==
    /\ pc = "rank"
    /\ retrieved_docs' = IF Scoped THEN EventFirst(all_docs) ELSE FuzzyRanking(all_docs, pairOf)
    /\ pc' = "answer"
    /\ UNCHANGED <<requestVars, actorVars, retrieverVars, store_log, llm_calls, answer, status, failure, http, pureVars>>

\* the scores the library may give the final ordering: it is asked for none
\* under actor scope
ScoresSeen == IF Scoped THEN {NoScores} ELSE [Contents(all_docs) -> ScorePairs]

Rank ==
    /\ \E pairOf \in ScoresSeen : RankBy(pairOf)
    /\ UNCHANGED rank_scores

\* the final ordering, with the scores it saw kept for inspection
RankObserved == \E pairOf \in ScoresSeen : RankBy(pairOf) /\ rank_scores' = pairOf

\* the caller: the fixed answer for no documents, else the completion over
\* the context; llm.invoke may raise
Answer ==
    /\ pc = "answer"
    /\ IF NoDocuments(retrieved_docs)
       THEN /\ answer' = FixedAnswer
            /\ status' = "ok"
            /\ http' = OkResponse
            /\ UNCHANGED <<llm_calls, failure>>
       ELSE /\ llm_calls' = Append(llm_calls, Context(SliceTo(retrieved_docs, max_results)))
            /\ \E ok \in BOOLEAN :
                  IF ok THEN /\ answer' = Completion
                             /\ status' = "ok"
                             /\ http' = OkResponse
                             /\ UNCHANGED failure
                        ELSE /\ answer' = None
                             /\ status' = "error"
                             /\ failure' = "llm.invoke"
                             /\ http' = ErrorResponse("CompletionError")
    /\ pc' = "done"
    /\ UNCHANGED <<requestVars, actorVars, retrieverVars, store_log, rank_scores, retrieved_docs, pureVars>>

\* the next query: a new request, a new retriever
NextQuery ==
    /\ pc = "done"
    /\ query' \in FlowQueries
    /\ max_results' \in MaxResultsOf(variant)
    /\ pc' = "detect"
    /\ actor_type' = None
    /\ actor_id' = None
    /\ all_docs' = <<>>
    /\ seen_content' = {}
    /\ all_actor_docs' = <<>>
    /\ profile_docs' = <<>>
    /\ raised' = {}
    /\ contributed' = {}
    /\ offers' = [offers EXCEPT !.made = {}]
    /\ retrieved_docs' = <<>>
    /\ llm_calls' = <<>>
    /\ answer' = None
    /\ status' = "pending"
    /\ failure' = None
    /\ http' = NoResponse
    /\ detected' = FALSE
    /\ store_log' = <<>>
    /\ rank_scores' = NoScores
    /\ UNCHANGED <<variant, vectorstore, llm, pureVars>>

(***************************************************************************)
(* detect_query_actor applied to queries made of a few words.              *)
(***************************************************************************)
\* most words in a generated query
MaxTokens == 3

DetectTokens == {"patient ", "Provider 7 ", "doctor", "hospital ", "payer ", "3", "id ", BigId}

RECURSIVE Phrases(_)
Phrases(n) ==
    IF n = 0 THEN {""}
    ELSE LET P == Phrases(n - 1) IN P \cup {p \o t : p \in P, t \in DetectTokens}

InitDetect ==
    /\ variant \in Variants
    /\ query \in Phrases(MaxTokens)
    /\ max_results = SomeInt(100)
    /\ vectorstore = Handle
    /\ llm = Handle
    /\ pc = "detect"
    /\ actor_type = None
    /\ actor_id = None
    /\ detected = FALSE
    /\ FreshRetriever
    /\ FreshAnswer
    /\ NormIdle
    /\ OthersIdle("flow")

NextDetect == Detect

SpecDetect == InitDetect /\ [][NextDetect]_vars

Next ==
    \/ Unavailable
    \/ Detect
    \/ Strategy1
    \/ Strategy2
    \/ Strategy3
    \/ Strategy35
    \/ Strategy4
    \/ Strategy5
    \/ Rank
    \/ Answer
    \/ NextQuery

Spec == Init /\ [][Next]_vars

(***************************************************************************)
(* get_relevant_documents from its first strategy to its return, with the  *)
(* history of what each strategy handed to the accumulation loop.          *)
(***************************************************************************)
\* a provider whose event has a copy of the same text under another provider
\* (the unfiltered search of strategy 5 can return both), and a query that
\* sets no actor scope
AccumulateQueries == {"Tell me about doctor 1", "Which patient had surgery"}

InitAccumulate ==
    /\ variant \in Variants
    /\ query \in AccumulateQueries
    /\ max_results = SomeInt(100)
    /\ vectorstore = Handle
    /\ llm = Handle
    /\ pc = "detect"
    /\ actor_type = None
    /\ actor_id = None
    /\ detected = FALSE
    /\ all_docs = <<>>
    /\ seen_content = {}
    /\ all_actor_docs = <<>>
    /\ profile_docs = <<>>
    /\ raised = {}
    /\ contributed = {}
    /\ offers = OffersKept
    /\ store_log = <<>>
    /\ rank_scores = NoScores
    /\ FreshAnswer
    /\ NormIdle
    /\ OthersIdle("flow")

NextAccumulate ==
    \/ Detect
    \/ Strategy1
    \/ Strategy2
    \/ Strategy3
    \/ Strategy35
    \/ Strategy4
    \/ Strategy5
    \/ Rank

SpecAccumulate == InitAccumulate /\ [][NextAccumulate]_vars

(***************************************************************************)
(* Queries that name a kind of actor and no id, and one that names both,   *)
(* from detection to the return of get_relevant_documents, with the scores *)
(* the final ranking saw kept.                                             *)
(***************************************************************************)
KeywordQueries == {"Which patient had surgery", "Is the doctor in the clinic", "Tell me about doctor 1"}

InitKeyword ==
    /\ variant \in Variants
    /\ query \in KeywordQueries
    /\ max_results = SomeInt(100)
    /\ vectorstore = Handle
    /\ llm = Handle
    /\ pc = "detect"
    /\ actor_type = None
    /\ actor_id = None
    /\ detected = FALSE
    /\ FreshRetriever
    /\ FreshAnswer
    /\ NormIdle
    /\ OthersIdle("flow")

NextKeyword ==
    \/ Detect
    \/ Strategy1
    \/ Strategy2
    \/ Strategy3
    \/ Strategy35
    \/ Strategy4
    \/ Strategy5
    \/ RankObserved

SpecKeyword == InitKeyword /\ [][NextKeyword]_vars

(***************************************************************************)
(* The final ordering applied to the lists the strategies can leave, with  *)
(* the scores it saw kept.                                                 *)
(***************************************************************************)
MaxRanked == 3

\* queries that set no actor scope: no actor word, and an actor word with no id
UnscopedQueries == {"Show all diabetes cases", "Which patient had surgery"}

InitRank ==
    /\ variant \in Variants
    /\ query \in UnscopedQueries
    /\ max_results = SomeInt(100)
    /\ vectorstore = Handle
    /\ llm = Handle
    /\ pc = "rank"
    /\ actor_type = detect_query_actor(variant, query).actor_type
    /\ actor_id = detect_query_actor(variant, query).actor_id
    /\ detected = TRUE
    /\ all_docs \in {docs \in DistinctSeqs(Corpus, MaxRanked) :
                        \A i, j \in 1..Len(docs) : i < j => docs[i].page_content # docs[j].page_content}
    /\ seen_content = {Hash(c) : c \in Contents(all_docs)}
    /\ all_actor_docs = <<>>
    /\ profile_docs = <<>>
    /\ raised = {}
    /\ contributed = Contents(all_docs)
    /\ offers = NoOffers
    /\ store_log = <<Call("s1", "similarity_search", NoFilter, 100),
                     CallMMR("s2", NoFilter, 50, 150)>>
    /\ rank_scores = NoScores
    /\ FreshAnswer
    /\ NormIdle
    /\ OthersIdle("flow")

NextRank == RankObserved

SpecRank == InitRank /\ [][NextRank]_vars

(***************************************************************************)
(* Two POST /query requests against one store.  query_database of api.py   *)
(* is written here as a function of the handler's local variables, so     *)
(* that the same steps can be run interleaved and alone.  The store is     *)
(* fixed while the requests run: it ranks its documents in index_order     *)
(* (max_marginal_relevance_search from the other end) and answers a        *)
(* search with the first hits that pass the filter.                        *)
(***************************************************************************)
ConcurrentHits == 1

ConcurrentQueries == {"What medications does patient 3 have?", "Show all diabetes cases"}

\* the library's pairs in this specification: one accepted at threshold 50,
\* one rejected
ConcurrentScores == {<<100, 100>>, <<30, 20>>}

Requests == {1, 2}

\* the local variables of one call of query_database
Local(q) ==
    [query |-> q, pc |-> "detect", actor_type |-> None, actor_id |-> None,
     all_docs |-> <<>>, retrieved_docs |-> <<>>, context |-> None, answer |-> None,
     status |-> "pending"]

\* self.actor_type and self.actor_id
LocalScoped(st) == st.actor_type \notin {None, ""} /\ st.actor_id \notin {None, ""}

\* {filter_key: str(self.actor_id)}
LocalFilter(st) == Filter1(st.actor_type \o "_id", st.actor_id)

Reverse(seq) == [i \in 1..Len(seq) |-> seq[Len(seq) + 1 - i]]

Rotate(seq, n) == [i \in 1..Len(seq) |-> seq[((i + n - 1) % Len(seq)) + 1]]

\* the order in which a search method ranks the documents
Ranking(strategy) == IF strategy = "s2" THEN Reverse(index_order) ELSE index_order

\* the store's answer to one search
StoreAnswer(strategy, filter, k) ==
    IF strategy \in broken THEN Raised("RuntimeError")
    ELSE LET Hit(d) == Matches(d, filter)
             hits   == SelectSeq(Ranking(strategy), Hit)
         IN  Returns(SubSeq(hits, 1, Min(Min(k, ConcurrentHits), Len(hits))))

\* a strategy block whose condition is false adds nothing
NoCall == Returns(<<>>)

\* what the store call of the strategy at st.pc gives
LocalCall(st) ==
    CASE st.pc = "s1" -> IF LocalScoped(st) THEN StoreAnswer("s1", LocalFilter(st), 150)
                         ELSE StoreAnswer("s1", NoFilter, 100)
      [] st.pc = "s2" -> IF LocalScoped(st) THEN StoreAnswer("s2", LocalFilter(st), 100)
                         ELSE StoreAnswer("s2", NoFilter, 50)
      [] st.pc = "s3" -> IF LocalScoped(st) THEN StoreAnswer("s3", LocalFilter(st), 1000)
                         ELSE NoCall
      [] st.pc = "s35" -> IF LocalScoped(st) /\ Len(st.all_docs) < 50
                          THEN StoreAnswer("s35", LocalFilter(st), 1000)
                          ELSE NoCall
      [] OTHER -> NoCall

\* the contents the step at st.pc passes to fuzzy_match_score
ScoredContents(st) ==
    CASE st.pc = "s35" -> IF LocalCall(st).ok THEN Contents(LocalCall(st).docs) ELSE {}
      [] st.pc = "rank" -> IF LocalScoped(st) THEN {} ELSE Contents(st.all_docs)
      [] OTHER -> {}

\* the documents of a store answer that the strategy hands to the
\* accumulation loop
LocalKept(st, found, pairOf) ==
    CASE st.pc = "s3" -> LET Keep(d) == KeepInSweep(KeywordHit(st.query, d.page_content), d)
                         IN  SelectSeq(found, Keep)
      [] st.pc = "s35" -> FuzzyCandidates(found, pairOf)
      [] OTHER -> found

LocalNext(at) ==
    CASE at = "s1" -> "s2"
      [] at = "s2" -> "s3"
      [] at = "s3" -> "s35"
      [] OTHER -> "rank"

Stepped(st, seen) == [st |-> st, seen |-> seen]

\* detect_query_actor, then the retriever's  seen_content = set()
LocalDetect(st, seen) ==
    LET r == detect_query_actor("api", st.query)
    IN  IF r.ok
        THEN Stepped([st EXCEPT !.actor_type = r.actor_type, !.actor_id = r.actor_id,
                                !.pc = "s1"], {})
        ELSE Stepped([st EXCEPT !.pc = "done", !.status = "error"], seen)

\* one strategy block: the call, the accumulation loop, the except clause
LocalStrategy(st, seen, pairOf) ==
    LET out == LocalCall(st)
    IN  IF out.ok
        THEN LET acc == AddDocs(Acc(st.all_docs, seen), LocalKept(st, out.docs, pairOf))
             IN  Stepped([st EXCEPT !.all_docs = acc.all_docs, !.pc = LocalNext(st.pc)],
                         acc.seen_content)
        ELSE Stepped([st EXCEPT !.pc = LocalNext(st.pc)], seen)

\* the answer for the documents retrieval returned (max_results at its default)
LocalAnswer(st, seen, ranked) ==
    Stepped([st EXCEPT !.retrieved_docs = ranked, !.pc = "done", !.status = "ok",
                       !.answer = IF NoDocuments(ranked) THEN FixedAnswer ELSE Completion,
                       !.context = IF NoDocuments(ranked) THEN None
                                   ELSE Context(SliceTo(ranked, SomeInt(100)))],
            seen)

\* the final ordering and the answer
LocalRank(st, seen, pairOf) ==
    LocalAnswer(st, seen, IF LocalScoped(st) THEN EventFirst(st.all_docs)
                          ELSE FuzzyRanking(st.all_docs, pairOf))

\* one step of query_database
LocalStep(st, seen, pairOf) ==
    CASE st.pc = "detect" -> LocalDetect(st, seen)
      [] st.pc = "rank" -> LocalRank(st, seen, pairOf)
      [] OTHER -> LocalStrategy(st, seen, pairOf)

\* the scores the library gave for (q, c) so far
Recorded(q, c) == {t \in score_answers : t[1] = q /\ t[2] = c}

\* the scores the library may give now: those it gave before, any otherwise
ScoreChoices(q, contents) ==
    {f \in [contents -> ConcurrentScores] :
        \A c \in contents : \A t \in Recorded(q, c) : f[c] = t[3]}

\* a retriever whose seen_content set belongs to the class, not to the call
SharedOwner(r) == 1

\* whose seen_content a request reads and writes: its own call's
Owner(r) == r

\* request r takes its next step
Advance(r) ==
    /\ inflight[r].pc # "done"
    /\ \E pairOf \in ScoreChoices(inflight[r].query, ScoredContents(inflight[r])) :
          LET nxt == LocalStep(inflight[r], seen_by[Owner(r)], pairOf)
          IN  /\ inflight' = [inflight EXCEPT ![r] = nxt.st]
              /\ seen_by' = [seen_by EXCEPT ![Owner(r)] = nxt.seen]
              /\ score_answers' = score_answers \cup
                    {<<inflight[r].query, c, pairOf[c]>> : c \in DOMAIN pairOf}
    /\ UNCHANGED <<index_order, broken, restOfConcurrent>>

CorpusOrder == <<EventA, ProfilePatient, EventOther, EventB, ProfileProvider>>

IndexOrders ==
    {Rotate(CorpusOrder, n) : n \in 0..(Len(CorpusOrder) - 1)}
        \cup {Reverse(Rotate(CorpusOrder, n)) : n \in 0..(Len(CorpusOrder) - 1)}

BrokenSets == {{}, {"s1"}, {"s3", "s35"}}

InitConcurrent ==
    /\ inflight \in [Requests -> {Local(q) : q \in ConcurrentQueries}]
    /\ seen_by = [r \in Requests |-> {}]
    /\ index_order \in IndexOrders
    /\ broken \in BrokenSets
    /\ score_answers = {}
    /\ FlowIdle
    /\ NormIdle
    /\ OthersIdle("concurrent")

NextConcurrent == \E r \in Requests : Advance(r)

SpecConcurrent == InitConcurrent /\ [][NextConcurrent]_vars

(***************************************************************************)
(* The debug command and the debug endpoint.                               *)
(***************************************************************************)
ActorTypes == {"patient", "provider", "organization", "payer"}

\* ids as a user writes them; the empty one leaves the command with two words
DebugIds == {"3", "03", "3.0", "1", "01", "1.0", "2", "7", "1e400", "x"}

DebugIdsOf(v) == IF v = "RagAPP" THEN DebugIds \cup {""} ELSE DebugIds

DebugRequest(t, id) == [actor_type |-> t, actor_id |-> id]

\* vectorstore.similarity_search("", k=1000, filter=...): every document that
\* passes the filter, or an exception
DebugSearch(filter) ==
    LET Hit(d) == Matches(d, filter)
    IN  {Returns(SelectSeq(CorpusOrder, Hit))} \cup {Raised(e) : e \in StoreErrors}

\* the search and what is shown of it
DebugShow(filter, okStatus, errStatus) ==
    /\ debug_filter' = filter
    /\ \E out \in DebugSearch(filter) :
          IF out.ok THEN debug_docs' = out.docs /\ debug_status' = okStatus
                    ELSE debug_docs' = <<>> /\ debug_status' = errStatus

\* RagAPP.py: the line  debug <actor_type> <actor_id>
DebugCommand ==
    /\ debug_variant = "RagAPP"
    /\ debug_pc = "in"
    /\ LET line  == "debug " \o debug_input.actor_type \o " " \o debug_input.actor_id
           parts == Split(line)
       IN  IF Len(parts) >= 3
           THEN LET r == normalize_id(PyStr(parts[3]))
                IN  IF r.ok
                    THEN DebugShow(Filter1(parts[2] \o "_id", r.s), "printed", "Debug error")
                    ELSE /\ debug_status' = "Error"
                         /\ UNCHANGED <<debug_filter, debug_docs>>
           ELSE /\ debug_status' = "ignored"
                /\ UNCHANGED <<debug_filter, debug_docs>>
    /\ debug_pc' = "done"
    /\ UNCHANGED <<debug_variant, debug_input, debug_vectorstore, restOfDebug>>

\* api.py: GET /debug/{actor_type}/{actor_id}
DebugEndpoint ==
    /\ debug_variant = "api"
    /\ debug_pc = "in"
    /\ IF debug_vectorstore = None
       THEN /\ debug_status' = "503"
            /\ UNCHANGED <<debug_filter, debug_docs>>
       ELSE DebugShow(Filter1(debug_input.actor_type \o "_id", debug_input.actor_id),
                      "200", "500")
    /\ debug_pc' = "done"
    /\ UNCHANGED <<debug_variant, debug_input, debug_vectorstore, restOfDebug>>

InitDebug ==
    /\ debug_variant \in Variants
    /\ debug_input \in {DebugRequest(t, id) : t \in ActorTypes, id \in DebugIdsOf(debug_variant)}
    /\ debug_vectorstore \in HandlesOf(debug_variant)
    /\ debug_pc = "in"
    /\ debug_filter = NoFilter
    /\ debug_docs = <<>>
    /\ debug_status = "pending"
    /\ FlowIdle
    /\ NormIdle
    /\ OthersIdle("debug")

NextDebug == DebugCommand \/ DebugEndpoint

SpecDebug == InitDebug /\ [][NextDebug]_vars

(***************************************************************************)
(* expand_query.  list(set(expanded_terms)) lists the distinct terms in an *)
(* order the language does not fix; the model draws it from the rotations  *)
(* of the order of first occurrence and their reversals.                   *)
(***************************************************************************)
Expansion(key, synonyms) == [key |-> key, synonyms |-> synonyms]

\* the dictionary, in the order of its items
Expansions ==
    << Expansion("medication", <<"medication", "drug", "prescription", "medicine", "pharmaceutical">>),
       Expansion("observation", <<"observation", "test", "measurement", "result", "reading", "lab">>),
       Expansion("procedure", <<"procedure", "surgery", "operation", "treatment", "intervention">>),
       Expansion("diagnosis", <<"diagnosis", "condition", "disease", "disorder", "illness">>),
       Expansion("event", <<"event", "encounter", "visit", "record", "entry">>),
       Expansion("doctor", <<"doctor", "physician", "provider", "clinician", "dr">>),
       Expansion("hospital", <<"hospital", "organization", "facility", "clinic", "center">>),
       Expansion("insurance", <<"insurance", "payer", "coverage", "insurer">>) >>

\* a test on the query as typed
InQueryAsTyped(key, q) == Contains(q, key)

\* key in query_lower
InQueryLower(key, q) == Contains(Lower(q), key)

\* expanded_terms after the loop, from the k-th item on
RECURSIVE ExpandedTermsFrom(_, _)
ExpandedTermsFrom(q, k) ==
    IF k > Len(Expansions) THEN <<>>
    ELSE (IF InQueryLower(Expansions[k].key, q) THEN Expansions[k].synonyms ELSE <<>>)
            \o ExpandedTermsFrom(q, k + 1)

ExpandedTerms(q) == ExpandedTermsFrom(q, 1)

\* the distinct elements of terms, in the order of first occurrence
RECURSIVE DistinctFrom(_, _, _)
DistinctFrom(terms, i, sofar) ==
    IF i > Len(terms) THEN sofar
    ELSE DistinctFrom(terms, i + 1,
                      IF terms[i] \in Range(sofar) THEN SubSeq(sofar, 1, Len(sofar))
                      ELSE Append(sofar, terms[i]))

\* list(set(terms)): the distinct terms, in one of the orders of the model
ListsOfSet(terms) ==
    LET distinct == DistinctFrom(terms, 1, <<>>)
    IN  {Rotate(distinct, n) : n \in 0..(Len(distinct) - 1)}
            \cup {Reverse(Rotate(distinct, n)) : n \in 0..(Len(distinct) - 1)}

\* " ".join(words)
RECURSIVE JoinWordsFrom(_, _)
JoinWordsFrom(words, i) ==
    IF i > Len(words) THEN ""
    ELSE IF i = Len(words) THEN words[i]
    ELSE words[i] \o " " \o JoinWordsFrom(words, i + 1)

JoinWords(words) == JoinWordsFrom(words, 1)

\* expand_query(query), with unique_terms as the set was listed
expand_query(q, unique_terms) ==
    IF ExpandedTerms(q) # <<>> THEN q \o " " \o JoinWords(unique_terms) ELSE q

MaxWords == 2

ExpandWords == {"medication", "Doctor", "event", "prevent", "hospital", "insurance", "x", " "}

RECURSIVE WordsUpTo(_)
WordsUpTo(n) ==
    IF n = 0 THEN {""}
    ELSE LET shorter == WordsUpTo(n - 1) IN shorter \cup {p \o w : p \in shorter, w \in ExpandWords}

InitExpand ==
    /\ expand_input \in WordsUpTo(MaxWords)
    /\ expand_pc = "in"
    /\ expand_output = ""
    /\ FlowIdle
    /\ NormIdle
    /\ OthersIdle("expand")

\* expanded = expand_query(query)
ExpandQuery ==
    /\ expand_pc = "in"
    /\ \E unique_terms \in ListsOfSet(ExpandedTerms(expand_input)) \cup {<<>>} :
          /\ (unique_terms = <<>>) = (ExpandedTerms(expand_input) = <<>>)
          /\ expand_output' = expand_query(expand_input, unique_terms)
    /\ expand_pc' = "done"
    /\ UNCHANGED <<expand_input, restOfExpand>>

NextExpand == ExpandQuery

SpecExpand == InitExpand /\ [][NextExpand]_vars

(***************************************************************************)
(* fuzzy_match_score with the two calls of the fuzzywuzzy library.  What   *)
(* the library computes for two different strings is drawn from ScoreGrid; *)
(* what it returns without computing is modelled as the library does it:   *)
(* token_set_ratio first reduces both strings to their words (full_process *)
(* turns every character that is no letter, digit or underscore into a     *)
(* space and strips) and returns 0 when one of them has none;              *)
(* partial_ratio returns 100 for equal strings and 0 when one is empty.    *)
(***************************************************************************)
WordCharacters == "abcdefghijklmnopqrstuvwxyz0123456789_"

\* s has a character that full_process keeps
HasWord(s) == \E i \in 1..Len(s) : Contains(WordCharacters, Lower(Ch(s, i)))

\* fuzz.token_set_ratio(s1, s2), computed being what the comparison gives
token_set_ratio(s1, s2, computed) ==
    IF ~HasWord(s1) \/ ~HasWord(s2) THEN 0
    ELSE IF s1 = s2 THEN 100
    ELSE computed

\* fuzz.partial_ratio(s1, s2), computed being what the comparison gives
partial_ratio(s1, s2, computed) ==
    IF s1 = s2 THEN 100
    ELSE IF s1 = "" \/ s2 = "" THEN 0
    ELSE computed

\* what the library may compute for two different strings
ScoreGrid == ScorePairs \cup {<<0, 0>>, <<100, 0>>, <<0, 100>>, <<71, 1>>, <<97, 97>>, <<99, 100>>}

ScoreTexts == {"", "a", "A", "ab", "a!", "!", "Patient 3"}

ScoreThresholds == {0, 1, 50, 60, 97, 100}

InitScore ==
    /\ score_query \in ScoreTexts
    /\ score_text \in ScoreTexts
    /\ score_threshold \in ScoreThresholds
    /\ score_pc = "in"
    /\ score_pair = <<0, 0>>
    /\ score_result = ScoreZero
    /\ FlowIdle
    /\ NormIdle
    /\ OthersIdle("score")

\* fuzzy_match_score(query, text, threshold)
FuzzyMatchScore ==
    /\ score_pc = "in"
    /\ \E computed \in ScoreGrid :
          score_pair' = <<token_set_ratio(Lower(score_query), Lower(score_text), computed[1]),
                          partial_ratio(Lower(score_query), Lower(score_text), computed[2])>>
    /\ score_result' = fuzzy_match_score(score_pair', score_threshold)
    /\ score_pc' = "done"
    /\ UNCHANGED <<score_query, score_text, score_threshold, restOfScore>>

NextScore == FuzzyMatchScore

SpecScore == InitScore /\ [][NextScore]_vars

(***************************************************************************)
(* The fuzzy strategy with an actor that has more than 50 documents.  The  *)
(* retriever stands before strategy 3.5 with some of the actor's documents *)
(* accumulated; the store answers the search with the first documents of   *)
(* the actor, and the library scores them after one of a few patterns.     *)
(***************************************************************************)
MaxActorDocs == 52

Numeral(n) ==
    (IF n >= 10 THEN Ch("0123456789", (n \div 10) + 1) ELSE "") \o Ch("0123456789", (n % 10) + 1)

\* the n-th event of patient 3
ActorDoc(n) ==
    Doc("Patient 3 had observation on 202001" \o Numeral(n) \o ". Pulse",
        [source |-> "warehouse", patient_id |-> "3", type |-> "event",
         date |-> "202001" \o Numeral(n), category |-> "Observation"])

\* the first m documents of the actor, as the store lists them
FirstActorDocs(m) == [i \in 1..m |-> ActorDoc(i)]

\* the last n documents of the actor, the last one first
LastActorDocs(n) == [i \in 1..n |-> ActorDoc(MaxActorDocs + 1 - i)]

\* how the library scores the n-th document
PairAt(mode, n) ==
    CASE mode = "all" -> <<100, 100>>
      [] mode = "none" -> <<30, 20>>
      [] mode = "rising" -> IF n <= 2 THEN <<50, 50>> ELSE <<100, 100>>
      [] OTHER -> IF n % 4 = 0 THEN <<100, 100>>
                  ELSE IF n % 4 = 1 THEN <<50, 50>>
                  ELSE IF n % 4 = 2 THEN <<53, 43>>
                  ELSE <<30, 20>>

ScoringModes == {"all", "none", "rising", "mixed"}

ScoringOf(mode) ==
    [c \in {ActorDoc(n).page_content : n \in 1..MaxActorDocs} |->
        PairAt(mode, CHOOSE n \in 1..MaxActorDocs : ActorDoc(n).page_content = c)]

\* how many documents the strategies before have accumulated, and how many
\* the store returns
AccumulatedSizes == {0, 1, 49, 50, 51}

ReturnedSizes == {0, 1, 50, 51, MaxActorDocs}

FuzzyQueries == {"What medications does patient 3 have?", "Which patient had surgery"}

InitFuzzy ==
    /\ variant \in Variants
    /\ query \in FuzzyQueries
    /\ max_results = SomeInt(100)
    /\ vectorstore = Handle
    /\ llm = Handle
    /\ pc = "s35"
    /\ actor_type = detect_query_actor(variant, query).actor_type
    /\ actor_id = detect_query_actor(variant, query).actor_id
    /\ detected = TRUE
    /\ all_docs \in {LastActorDocs(n) : n \in AccumulatedSizes}
    /\ seen_content = {Hash(c) : c \in Contents(all_docs)}
    /\ all_actor_docs = <<>>
    /\ profile_docs = <<>>
    /\ raised = {}
    /\ contributed = Contents(all_docs)
    /\ offers = NoOffers
    /\ store_log = IF Scoped
                   THEN <<Call("s1", "similarity_search", ActorFilter, 150),
                          CallMMR("s2", ActorFilter, 100, 300),
                          Call("s3", "similarity_search", ActorFilter, 1000)>>
                   ELSE <<Call("s1", "similarity_search", NoFilter, 100),
                          CallMMR("s2", NoFilter, 50, 150)>>
    /\ rank_scores = NoScores
    /\ FreshAnswer
    /\ fuzzy_out \in {Returns(FirstActorDocs(m)) : m \in ReturnedSizes}
                        \cup {Raised(e) : e \in StoreErrors}
    /\ fuzzy_pairs \in {ScoringOf(mode) : mode \in ScoringModes}
    /\ NormIdle
    /\ OthersIdle("fuzzy")

\* strategy 3.5 with this store and this library
FuzzyFallback == Strategy35By(fuzzy_out, fuzzy_pairs)

NextFuzzy == FuzzyFallback

SpecFuzzy == InitFuzzy /\ [][NextFuzzy]_vars

\* the score the library gave for (q, c); a pair it was never asked for is
\* taken as the rejected one
RecordedScores(q, contents) ==
    [c \in contents |-> IF Recorded(q, c) = {} THEN <<30, 20>>
                        ELSE (CHOOSE t \in Recorded(q, c) : TRUE)[3]]

\* query_database run from st to its end, with no other request
RECURSIVE AloneFrom(_, _)
AloneFrom(st, seen) ==
    IF st.pc = "done" THEN [st EXCEPT !.pc = "done"]
    ELSE LET nxt == LocalStep(st, seen, RecordedScores(st.query, ScoredContents(st)))
         IN  AloneFrom(nxt.st, nxt.seen)

\* the request for q, run alone against the store
Alone(q) == AloneFrom(Local(q), {})

(***************************************************************************)
(* The service of api.py.  lifespan runs before the first request: it      *)
(* loads the embeddings (outside any try block), then the index and the    *)
(* model, each inside a try block whose except clause sets the global to   *)
(* None.  The handlers are coroutines without an await on one event loop,  *)
(* so a request is served from its arrival to its response before the next *)
(* one.  The try block of query_database, which Spec follows step by step, *)
(* is one step here: it answers 200 or 500.                                *)
(***************************************************************************)
\* most POST /query requests in a run of the model
MaxRequests == 3

ServiceQueries == {"What medications does patient 3 have?", "Show all diabetes cases"}

\* the variables of the query flow that the service's own steps leave alone
restOfService ==
    <<variant, query, max_results, pc, actorVars, retrieverVars, store_log, rank_scores,
      retrieved_docs, llm_calls, answer, status, failure, besideService>>

InitService ==
    /\ variant = "api"
    /\ query = ""
    /\ max_results = SomeInt(100)
    /\ vectorstore = None
    /\ llm = None
    /\ pc = "idle"
    /\ actor_type = None
    /\ actor_id = None
    /\ detected = FALSE
    /\ FreshRetriever
    /\ FreshAnswer
    /\ service = "start"
    /\ embedding_function = None
    /\ health = NoHealth
    /\ served = 0
    /\ NormIdle
    /\ OthersIdle("service")

\* embedding_function = HuggingFaceEmbeddings(...): an exception leaves
\* lifespan, and the server exits without serving
LoadEmbeddings ==
    /\ service = "start"
    /\ \E ok \in BOOLEAN :
          IF ok THEN embedding_function' = Handle /\ service' = "index"
                ELSE embedding_function' = None /\ service' = "failed"
    /\ UNCHANGED <<vectorstore, llm, http, health, served, restOfService>>

\* a start-up that gives up when the index cannot be loaded
StopsOnLoadFailure == "failed"

\* where lifespan goes on after the except clause of FAISS.load_local
AfterLoadFailure == "llm"

\* vectorstore = FAISS.load_local(...), or None when it raised
LoadIndex ==
    /\ service = "index"
    /\ \E ok \in BOOLEAN :
          IF ok THEN vectorstore' = Handle /\ service' = "llm"
                ELSE vectorstore' = None /\ service' = AfterLoadFailure
    /\ UNCHANGED <<llm, http, embedding_function, health, served, restOfService>>

\* llm = ChatGroq(...), or None when it raised; then the service is up
ConnectLLM ==
    /\ service = "llm"
    /\ \E ok \in BOOLEAN : llm' = IF ok THEN Handle ELSE None
    /\ service' = "serving"
    /\ UNCHANGED <<vectorstore, http, embedding_function, health, served, restOfService>>

\* no handler is running
BetweenRequests == service = "serving" /\ pc \in {"idle", "done"}

\* a POST /query arrives
Receive ==
    /\ BetweenRequests
    /\ served < MaxRequests
    /\ served' = served + 1
    /\ query' \in ServiceQueries
    /\ pc' = "detect"
    /\ http' = NoResponse
    /\ status' = "pending"
    /\ failure' = None
    /\ UNCHANGED <<variant, max_results, vectorstore, llm, actorVars, retrieverVars, store_log,
                   rank_scores, retrieved_docs, llm_calls, answer,
                   service, embedding_function, health, besideService>>

\* the try block of query_database: QueryResponse, or HTTP 500
Processing ==
    /\ service = "serving"
    /\ pc = "detect"
    /\ Ready
    /\ \E ok \in BOOLEAN :
          IF ok THEN /\ http' = OkResponse
                     /\ status' = "ok"
                     /\ UNCHANGED failure
                ELSE /\ http' = ErrorResponse("RuntimeError")
                     /\ status' = "error"
                     /\ failure' = "get_relevant_documents"
    /\ pc' = "done"
    /\ UNCHANGED <<requestVars, actorVars, retrieverVars, store_log, rank_scores,
                   retrieved_docs, llm_calls, answer, pureVars>>

\* what root and health_check return
HealthBody(endpoint) ==
    [endpoint |-> endpoint, status_code |-> 200,
     database_loaded |-> vectorstore # None, llm_connected |-> llm # None]

\* GET /
Root ==
    /\ BetweenRequests
    /\ health' = HealthBody("/")
    /\ UNCHANGED <<vectorstore, llm, http, service, embedding_function, served, restOfService>>

\* GET /health
HealthCheck ==
    /\ BetweenRequests
    /\ health' = HealthBody("/health")
    /\ UNCHANGED <<vectorstore, llm, http, service, embedding_function, served, restOfService>>

\* GET /stats: 503 without the index, else the counts, or 500 when the
\* search raised
GetStats ==
    /\ BetweenRequests
    /\ \E ok \in BOOLEAN :
          health' = [NoHealth EXCEPT !.endpoint = "/stats",
                                     !.status_code = IF vectorstore = None THEN 503
                                                     ELSE IF ok THEN 200 ELSE 500]
    /\ UNCHANGED <<vectorstore, llm, http, service, embedding_function, served, restOfService>>

\* the server is stopped: lifespan resumes after its yield and returns
Shutdown ==
    /\ BetweenRequests
    /\ service' = "stopped"
    /\ UNCHANGED <<vectorstore, llm, http, embedding_function, health, served, restOfService>>

NextService ==
    \/ LoadEmbeddings
    \/ LoadIndex
    \/ ConnectLLM
    \/ Receive
    \/ Unavailable
    \/ Processing
    \/ Root
    \/ HealthCheck
    \/ GetStats
    \/ Shutdown

SpecService == InitService /\ [][NextService]_vars

(***************************************************************************)
(* pipeline.py.  A step is a child process: it ends with exit status 0,    *)
(* with another status (subprocess.run raises CalledProcessError), is      *)
(* interrupted from the keyboard, or cannot be started (OSError, which     *)
(* run_command does not catch: the traceback ends the process with         *)
(* status 1).                                                              *)
(***************************************************************************)
\* len(pipeline_steps)
NumSteps == 10

\* the exit statuses of a child that failed: an error, a script that python
\* cannot open, a child killed by a signal
ExitCodes == {1, 2, -9}

Outcome(kind, returncode) == [kind |-> kind, returncode |-> returncode]

\* how subprocess.run(command, check=True) may end
Outcomes ==
    {Outcome("ok", 0), Outcome("KeyboardInterrupt", 0), Outcome("OSError", 0)}
        \cup {Outcome("CalledProcessError", c) : c \in ExitCodes}

InitPipeline ==
    /\ pipeline_pc = "loop"
    /\ step = 1
    /\ success_count = 0
    /\ success = FALSE
    /\ started = <<>>
    /\ results = <<>>
    /\ exit_status = -1
    /\ summary = FALSE
    /\ FlowIdle
    /\ NormIdle
    /\ OthersIdle("pipeline")

\* for step in pipeline_steps: run_command(...) up to subprocess.run
StartStep ==
    /\ pipeline_pc = "loop"
    /\ step <= NumSteps
    /\ started' = Append(started, step)
    /\ pipeline_pc' = "running"
    /\ UNCHANGED <<step, success_count, success, results, exit_status, summary, restOfPipeline>>

\* subprocess.run ends; run_command returns True, or False from one of its
\* except clauses, or lets the exception through
run_command ==
    /\ pipeline_pc = "running"
    /\ \E outcome \in Outcomes :
          /\ results' = Append(results, outcome)
          /\ IF outcome.kind = "OSError"
             THEN /\ pipeline_pc' = "exited"
                  /\ exit_status' = 1
                  /\ UNCHANGED success
             ELSE /\ pipeline_pc' = "returned"
                  /\ success' = (outcome.kind = "ok")
                  /\ UNCHANGED exit_status
    /\ UNCHANGED <<step, success_count, started, summary, restOfPipeline>>

\* a main that goes on after a failed step: what C25 would not survive
NeverStops(returned) == FALSE

\* if not success
Stops(returned) == ~returned

\* the rest of the loop body: sys.exit(1), or success_count += 1
AfterStep ==
    /\ pipeline_pc = "returned"
    /\ IF Stops(success)
       THEN /\ exit_status' = 1
            /\ pipeline_pc' = "exited"
            /\ UNCHANGED <<step, success_count>>
       ELSE /\ success_count' = success_count + 1
            /\ step' = step + 1
            /\ pipeline_pc' = "loop"
            /\ UNCHANGED exit_status
    /\ UNCHANGED <<success, started, results, summary, restOfPipeline>>

\* the loop is over: the summary is printed and main returns
Summary ==
    /\ pipeline_pc = "loop"
    /\ step > NumSteps
    /\ summary' = TRUE
    /\ exit_status' = 0
    /\ pipeline_pc' = "exited"
    /\ UNCHANGED <<step, success_count, success, started, results, restOfPipeline>>

NextPipeline ==
    \/ StartStep
    \/ run_command
    \/ AfterStep
    \/ Summary

SpecPipeline == InitPipeline /\ [][NextPipeline]_vars

(***************************************************************************)
(* process_staging_to_production.py.  The database is an input: an INSERT  *)
(* into the production table, the UPDATE of update_staging_status and the  *)
(* commit each either work or raise.  A statement that raises changes      *)
(* nothing and leaves the transaction open.                                *)
(***************************************************************************)
\* the rows of staging_conditions
MaxRows == 2

StagingIds == 1..MaxRows

Statuses == {"pending", "validated", "error"}

\* the staging_ids of a set of rows, ascending: the order the SELECT
\* returns them in
RECURSIVE Ascending(_)
Ascending(ids) ==
    IF ids = {} THEN <<>>
    ELSE LET least == CHOOSE i \in ids : \A j \in ids : i <= j
         IN  <<least>> \o Ascending(ids \ {least})

\* SELECT * FROM staging_conditions WHERE extraction_status = 'pending'
Pending(column) == {id \in StagingIds : column[id] = "pending"}

Tables(column, prod) == [extraction_status |-> column, conditions |-> prod]

InitLoader ==
    /\ loader_pc = "select"
    /\ pass = 1
    /\ items = <<>>
    /\ extraction_status \in [StagingIds -> Statuses]
    /\ conditions = [id \in StagingIds |-> 0]
    /\ committed = Tables(extraction_status, conditions)
    /\ selected = [call \in {1, 2} |-> {}]
    /\ inserts = [call \in {1, 2} |-> {}]
    /\ FlowIdle
    /\ NormIdle
    /\ OthersIdle("loader")

\* update_staging_status: the UPDATE, and the except clause that only prints
update_staging_status(column, id, new_status, works) ==
    IF works THEN [column EXCEPT ![id] = new_status] ELSE column

\* process_generic_table up to the loop: the SELECT and fetchall
SelectPending ==
    /\ loader_pc = "select"
    /\ items' = Ascending(Pending(extraction_status))
    /\ selected' = [selected EXCEPT ![pass] = Pending(extraction_status)]
    /\ loader_pc' = "loop"
    /\ UNCHANGED <<pass, extraction_status, conditions, committed, inserts, restOfLoader>>

\* one turn of the loop: the INSERT, then the status 'validated', or the
\* except clause and the status 'error'
ProcessItem ==
    /\ loader_pc = "loop"
    /\ items # <<>>
    /\ \E inserted \in BOOLEAN, works \in BOOLEAN :
          LET item == Head(items)
          IN  /\ conditions' = IF inserted THEN [conditions EXCEPT ![item] = @ + 1] ELSE conditions
              /\ inserts' = IF inserted THEN [inserts EXCEPT ![pass] = @ \cup {item}] ELSE inserts
              /\ extraction_status' =
                    update_staging_status(extraction_status, item,
                                          IF inserted THEN "validated" ELSE "error", works)
    /\ items' = Tail(items)
    /\ UNCHANGED <<loader_pc, pass, committed, selected, restOfLoader>>

\* self.db_conn.commit() works; run_all_processing goes on to its next call
Commit ==
    /\ loader_pc = "loop"
    /\ items = <<>>
    /\ committed' = Tables(extraction_status, conditions)
    /\ IF pass = 1
       THEN /\ pass' = 2
            /\ loader_pc' = "select"
       ELSE /\ loader_pc' = "done"
            /\ UNCHANGED pass
    /\ UNCHANGED <<items, extraction_status, conditions, selected, inserts, restOfLoader>>

\* self.db_conn.commit() raises: the except clause of run_all_processing
\* rolls back and the run is over
CommitFails ==
    /\ loader_pc = "loop"
    /\ items = <<>>
    /\ extraction_status' = committed.extraction_status
    /\ conditions' = committed.conditions
    /\ loader_pc' = "failed"
    /\ UNCHANGED <<pass, items, committed, selected, inserts, restOfLoader>>

NextLoader ==
    \/ SelectPending
    \/ ProcessItem
    \/ Commit
    \/ CommitFails

SpecLoader == InitLoader /\ [][NextLoader]_vars

(***************************************************************************)
(* extract_to_staging_db.py.  What the report holds, what the model        *)
(* answers and whether a statement of the database works are inputs.       *)
(***************************************************************************)
\* the longest list the model answers for a child table
MaxItems == 2

\* child_tables
child_tables ==
    <<"staging_conditions", "staging_medications", "staging_observations",
      "staging_allergies", "staging_procedures", "staging_immunizations">>

\* the place of a table in the order process_report goes through them
TableOrder(table) ==
    IF table = "staging_patients" THEN 1
    ELSE IF table = "staging_encounters" THEN 2
    ELSE 2 + (CHOOSE i \in 1..Len(child_tables) : child_tables[i] = table)

\* the spellings clean_value takes for no value
NullWords == {"nan", "None", "null", "undefined"}

\* clean_value
clean_value(value) == IF value = None \/ value \in NullWords THEN None ELSE value

\* the 'id' of the metadata block or of the answer of the model: absent
\* (None or ""), an identifier, or a word clean_value takes for no value
GivenIds(known) == {None, "", known, "nan"}

\* not patient_data.get('id'): uuid.uuid4() takes the place of a missing id
IdOr(given, generated) == IF given \in {None, ""} THEN generated ELSE given

\* how insert_single_record ends: the row is committed and True returned;
\* validate_data left nothing or the INSERT raised (False, no row); a
\* statement after the commit raised (False, the row is there)
InsertOutcomes == {"inserted", "refused", "committed then raised"}

Committed(outcome) == outcome \in {"inserted", "committed then raised"}

\* a row as INSERT writes it: validate_data cleans every value
StagingRow(table, id, patient_id, encounter_id) ==
    [table |-> table, id |-> clean_value(id), patient_id |-> clean_value(patient_id),
     encounter_id |-> clean_value(encounter_id)]

\* insert_staging_data of one dictionary: the rows and the count
InsertOne(rows, row, outcome) ==
    [staging |-> IF Committed(outcome) THEN Append(rows, row) ELSE rows,
     count |-> IF outcome = "inserted" THEN 1 ELSE 0]

InitExtractor ==
    /\ extractor_pc = "patient"
    /\ patient_data = None
    /\ encounter_data = None
    /\ child = 0
    /\ staging = <<>>
    /\ stats = <<>>
    /\ FlowIdle
    /\ NormIdle
    /\ OthersIdle("extractor")

\* extract_text_from_file returned nothing: return {}
NoText ==
    /\ extractor_pc = "patient"
    /\ extractor_pc' = "done"
    /\ UNCHANGED <<patient_data, encounter_data, child, staging, stats, restOfExtractor>>

\* step 1: the patient from the metadata block or from the model, its
\* insertion, and the return when the insertion failed
PatientStep ==
    /\ extractor_pc = "patient"
    /\ \E given \in GivenIds("p1"), outcome \in InsertOutcomes :
          LET id == IdOr(given, "uuid-1")
              done == InsertOne(staging, StagingRow("staging_patients", id, None, None), outcome)
          IN  /\ patient_data' = id
              /\ staging' = done.staging
              /\ stats' = Append(stats, <<"patients", done.count>>)
              /\ extractor_pc' = IF done.count > 0 THEN "encounter" ELSE "stopped"
    /\ UNCHANGED <<encounter_data, child, restOfExtractor>>

\* step 2: the encounter from the model (a dictionary, {} when the call
\* failed, or a list, which has no get) and its insertion
EncounterStep ==
    /\ extractor_pc = "encounter"
    /\ \/ /\ extractor_pc' = "raised"
          /\ UNCHANGED <<encounter_data, child, staging, stats>>
       \/ \E given \in GivenIds("e1"), outcome \in InsertOutcomes :
             LET id == IdOr(given, "uuid-2")
                 done == InsertOne(staging, StagingRow("staging_encounters", id, patient_data, None), outcome)
             IN  /\ encounter_data' = id
                 /\ staging' = done.staging
                 /\ stats' = Append(stats, <<"encounters", done.count>>)
                 /\ extractor_pc' = "children"
                 /\ child' = 1
    /\ UNCHANGED <<patient_data, restOfExtractor>>

\* an element of the list the model answers for a child table: a
\* dictionary with the references the model wrote, or something else
Item(is_dict, patient_id, encounter_id) ==
    [is_dict |-> is_dict, patient_id |-> patient_id, encounter_id |-> encounter_id]

Items == {Item(TRUE, "p2", "e2"), Item(FALSE, None, None)}

\* the lists the model answers, the empty one standing for every answer
\* that is no list
ChildAnswers == UNION {[1..n -> Items] : n \in 0..MaxItems}

\* a loop that leaves the references the model wrote: what the children
\* would then carry
ReferencesOfModel(item, patient_id, encounter_id) == item

\* item['patient_id'] = patient_data['id'];
\* item['encounter_id'] = encounter_data.get('id')
WithReferences(item, patient_id, encounter_id) ==
    IF item.is_dict
    THEN [item EXCEPT !.patient_id = patient_id, !.encounter_id = encounter_id]
    ELSE item

\* insert_staging_data over a list, from its i-th element on
RECURSIVE InsertFrom(_, _, _, _, _)
InsertFrom(i, data_list, outcomes, table, done) ==
    IF i > Len(data_list) THEN done
    ELSE IF ~data_list[i].is_dict THEN InsertFrom(i + 1, data_list, outcomes, table, done)
    ELSE LET row == StagingRow(table, "auto", data_list[i].patient_id, data_list[i].encounter_id)
             one == InsertOne(done.staging, row, outcomes[i])
         IN  InsertFrom(i + 1, data_list, outcomes, table,
                        [staging |-> one.staging, count |-> done.count + one.count])

\* one turn of the loop over child_tables
ChildStep ==
    /\ extractor_pc = "children"
    /\ \E reply \in ChildAnswers :
          \E outcomes \in [1..Len(reply) -> {"inserted", "refused"}] :
             \* insert_single_record is called for the dictionaries only
             /\ \A i \in 1..Len(reply) : ~reply[i].is_dict => outcomes[i] = "refused"
             /\ LET table == child_tables[child]
                    child_data_list ==
                        [i \in 1..Len(reply) |-> WithReferences(reply[i], patient_data, encounter_data)]
                    done == InsertFrom(1, child_data_list, outcomes, table, [staging |-> staging, count |-> 0])
                IN  /\ staging' = done.staging
                    /\ stats' = Append(stats, <<table, done.count>>)
    /\ IF child = Len(child_tables)
       THEN /\ extractor_pc' = "done"
            /\ UNCHANGED child
       ELSE /\ child' = child + 1
            /\ UNCHANGED extractor_pc
    /\ UNCHANGED <<patient_data, encounter_data, restOfExtractor>>

NextExtractor ==
    \/ NoText
    \/ PatientStep
    \/ EncounterStep
    \/ ChildStep

SpecExtractor == InitExtractor /\ [][NextExtractor]_vars

(***************************************************************************)
(* scripts/04_parse_sql.py.  The file and the server are inputs: connect,  *)
(* open, each cursor.execute and the commit either work or raise.          *)
(***************************************************************************)
\* the longest list of statements a file is split into
MaxStatements == 6

\* if error_count > 3
MaxErrors == 3

InitSql ==
    /\ sql_pc = "connect"
    /\ conn = "unbound"
    /\ statements = 0
    /\ idx = 0
    /\ executed = <<>>
    /\ sql_success_count = 0
    /\ error_count = 0
    /\ stopped = FALSE
    /\ commit_called = "no"
    /\ in_database = {}
    /\ FlowIdle
    /\ NormIdle
    /\ OthersIdle("sql")

\* mysql.connector.connect, open and read, and the split into statements;
\* an exception of connect or open goes to the outer except clauses
Connect ==
    /\ sql_pc = "connect"
    /\ \/ /\ sql_pc' = "finally"
          /\ UNCHANGED <<conn, statements, idx>>
       \/ /\ conn' = "open"
          /\ sql_pc' = "finally"
          /\ UNCHANGED <<statements, idx>>
       \/ \E n \in 0..MaxStatements :
             /\ conn' = "open"
             /\ statements' = n
             /\ idx' = 1
             /\ sql_pc' = "loop"
    /\ UNCHANGED <<executed, sql_success_count, error_count, stopped, commit_called, in_database, restOfSql>>

\* a loop that never takes the break: what C29 would not survive
NeverTooMany(errors) == FALSE

\* if error_count > 3
TooMany(errors) == errors > MaxErrors

\* one turn of the loop: a statement that is empty or ";" is passed over,
\* another is executed, and a mysql.connector.Error is counted
Execute ==
    /\ sql_pc = "loop"
    /\ idx <= statements
    /\ \/ /\ idx' = idx + 1
          /\ UNCHANGED <<sql_pc, executed, sql_success_count, error_count, stopped>>
       \/ /\ executed' = Append(executed, <<idx, TRUE>>)
          /\ sql_success_count' = sql_success_count + 1
          /\ idx' = idx + 1
          /\ UNCHANGED <<sql_pc, error_count, stopped>>
       \/ /\ executed' = Append(executed, <<idx, FALSE>>)
          /\ error_count' = error_count + 1
          /\ IF TooMany(error_count + 1)
             THEN /\ stopped' = TRUE
                  /\ sql_pc' = "commit"
                  /\ UNCHANGED idx
             ELSE /\ idx' = idx + 1
                  /\ UNCHANGED <<sql_pc, stopped>>
          /\ UNCHANGED sql_success_count
    /\ UNCHANGED <<conn, statements, commit_called, in_database, restOfSql>>

\* the list is exhausted
EndOfLoop ==
    /\ sql_pc = "loop"
    /\ idx > statements
    /\ sql_pc' = "commit"
    /\ UNCHANGED <<conn, statements, idx, executed, sql_success_count, error_count,
                   stopped, commit_called, in_database, restOfSql>>

\* the statements that were executed without an error
Succeeded(calls) == {calls[i][1] : i \in {j \in 1..Len(calls) : calls[j][2]}}

\* conn.commit(): it works, or raises with the connection still up, or
\* raises because the connection is gone
CommitSql ==
    /\ sql_pc = "commit"
    /\ \/ /\ in_database' = Succeeded(executed)
          /\ commit_called' = "worked"
          /\ UNCHANGED conn
       \/ /\ commit_called' = "raised"
          /\ UNCHANGED <<in_database, conn>>
       \/ /\ commit_called' = "raised"
          /\ conn' = "lost"
          /\ UNCHANGED in_database
    /\ sql_pc' = "finally"
    /\ UNCHANGED <<statements, idx, executed, sql_success_count, error_count, stopped, restOfSql>>

\* finally: if 'conn' in locals() and conn.is_connected(): close
Finally ==
    /\ sql_pc = "finally"
    /\ conn' = IF conn = "open" THEN "closed" ELSE conn
    /\ sql_pc' = "returned"
    /\ UNCHANGED <<statements, idx, executed, sql_success_count, error_count,
                   stopped, commit_called, in_database, restOfSql>>

NextSql ==
    \/ Connect
    \/ Execute
    \/ EndOfLoop
    \/ CommitSql
    \/ Finally

SpecSql == InitSql /\ [][NextSql]_vars

(***************************************************************************)
(* Properties.                                                             *)
(***************************************************************************)
\* get_relevant_documents has returned to the caller
RetrievalReturned ==
    pc \in {"answer", "done"} /\ failure \notin {"query_database", "detect_query_actor", "get_relevant_documents"}

NoDuplicates(docs) ==
    \A i, j \in 1..Len(docs) : i < j => docs[i].page_content # docs[j].page_content

\* the strategies that call the store for this scope in this variant
StrategiesRun ==
    IF ~Scoped THEN {"s1", "s2"}
    ELSE IF variant = "RagAPP" THEN {"s1", "s2", "s3", "s35", "s4", "s5"}
    ELSE {"s1", "s2", "s3", "s35"}

\* C1: whatever the store answered, in one strategy or across strategies,
\* the accumulated list and the list get_relevant_documents returns hold no
\* two documents with the same content.
C1_NoDuplicateContent ==
    /\ NoDuplicates(all_docs)
    /\ RetrievalReturned => NoDuplicates(retrieved_docs)

\* the sweep was handed two documents of the same text, and a list was returned
C1_Witness ==
    /\ RetrievalReturned
    /\ retrieved_docs # <<>>
    /\ {EventA, EventB} \subseteq Range(all_actor_docs)

\* C2: with actor_type and actor_id both set, every document of type "event"
\* in the returned list stands before every document of another type.
C2_EventsFirst ==
    (RetrievalReturned /\ Scoped) =>
        \A i, j \in 1..Len(retrieved_docs) :
            (i < j /\ MetaGet(retrieved_docs[j], "type") = "event")
                => MetaGet(retrieved_docs[i], "type") = "event"

\* a profile was accumulated before an event, and the list was returned
C2_Witness ==
    /\ RetrievalReturned
    /\ Scoped
    /\ \E i, j \in 1..Len(all_docs) :
          /\ i < j
          /\ MetaGet(all_docs[i], "type") # "event"
          /\ MetaGet(all_docs[j], "type") = "event"

\* C3: whichever strategies' store calls raise, get_relevant_documents raises
\* nothing and returns exactly the texts, each once, that the strategies which
\* did not raise contributed; nothing when every strategy raised.
C3_StrategyIsolation ==
    /\ failure # "get_relevant_documents"
    /\ RetrievalReturned =>
          /\ Contents(retrieved_docs) = contributed
          /\ Len(retrieved_docs) = Cardinality(contributed)
          /\ raised = StrategiesRun => retrieved_docs = <<>>

\* some strategies raised, others did not, and documents were returned
C3_Witness ==
    /\ RetrievalReturned
    /\ raised # {}
    /\ raised # StrategiesRun
    /\ retrieved_docs # <<>>

\* a document of the scoped actor, or one the related-actor pass of RagAPP.py admits
ScopedOrRelated(doc) ==
    \/ MetaGet(doc, actor_type \o "_id") = actor_id
    \/ /\ variant = "RagAPP"
       /\ ("related_" \o actor_type) \in DOMAIN doc.metadata

\* C4 as amended: under actor scope every accumulated and every returned
\* document carries "<actor_type>_id" equal to actor_id, or, in RagAPP.py only,
\* carries the key "related_<actor_type>" (the related-actor pass searches
\* without the filter).
C4_ScopedOrRelated ==
    Scoped =>
        /\ \A i \in 1..Len(all_docs) : ScopedOrRelated(all_docs[i])
        /\ RetrievalReturned => \A i \in 1..Len(retrieved_docs) : ScopedOrRelated(retrieved_docs[i])

\* a scoped query of RagAPP.py returned a document of the related-actor pass
C4_Witness ==
    /\ RetrievalReturned
    /\ Scoped
    /\ variant = "RagAPP"
    /\ \E i \in 1..Len(retrieved_docs) :
          ("related_" \o actor_type) \in DOMAIN retrieved_docs[i].metadata

\* C4 as claimed: under actor scope every returned document carries
\* "<actor_type>_id" equal to actor_id, in both variants.
C4_ScopedOnly ==
    (RetrievalReturned /\ Scoped) =>
        \A i \in 1..Len(retrieved_docs) :
            MetaGet(retrieved_docs[i], actor_type \o "_id") = actor_id

\* C5: when retrieval returns no document, the query is answered with the
\* fixed answer and llm.invoke is not called for it.
C5_FixedAnswerWithoutCompletion ==
    (pc = "done" /\ RetrievalReturned /\ retrieved_docs = <<>>) =>
        (answer = FixedAnswer /\ llm_calls = <<>> /\ status = "ok")

\* a query whose retrieval returned nothing was answered
C5_Witness ==
    /\ pc = "done"
    /\ RetrievalReturned
    /\ retrieved_docs = <<>>
    /\ answer = FixedAnswer

\* C6: for POST /query, whatever max_results is, llm.invoke is never called
\* with an empty context.
C6_NoEmptyContext ==
    variant = "api" => \A i \in 1..Len(llm_calls) : llm_calls[i] # ""

\* the patterns of the patient loop
PatientPatterns ==
    SelectSeq(IF variant = "RagAPP" THEN PatternsRagAPP ELSE PatternsApi,
              LAMBDA pat : pat.actor = "patient")

\* C7: for every query in which a patient id pattern matches,
\* detect_query_actor returns (patient, that id normalized), whatever other
\* ids the query holds and wherever they stand.
C7_PatientFirst ==
    LET k == FirstMatch(Lower(query), PatientPatterns, 1)
    IN  (pc # "detect" /\ pc # "idle" /\ k > 0) =>
            /\ failure # "detect_query_actor"
            /\ actor_type = "patient"
            /\ actor_id = StripZeros(Search(Lower(query), PatientPatterns[k]))

\* C8: normalize_id returns a string without raising for every input, its
\* result is a fixed point, and 3.0, "3" and 3 all give "3".
C8_IdempotentTotal ==
    /\ npc \in {"once", "twice"} => nres1.ok
    /\ npc = "twice" => nres2 = nres1
    /\ (/\ npc = "once"
        /\ nvalue \in {PyStr("3"), PyInt(FALSE, "3"), PyFloat(Fin(FALSE, "3", FALSE, TRUE))})
          => nres1 = Returned("3")

\* C9: under actor scope every document of type "event" that the store handed
\* to the keyword sweep is, by its content, in the returned list.
C9_SweepKeepsEvents ==
    (RetrievalReturned /\ Scoped) =>
        \A i \in 1..Len(all_actor_docs) :
            MetaGet(all_actor_docs[i], "type") = "event"
                => all_actor_docs[i].page_content \in Contents(retrieved_docs)

\* strategies 1 and 2 returned nothing, the sweep was handed an event that no
\* keyword of the query matches, and the event was returned
C9_Witness ==
    /\ RetrievalReturned
    /\ Scoped
    /\ {"s1", "s2"} \subseteq raised
    /\ \E i \in 1..Len(all_actor_docs) :
          /\ MetaGet(all_actor_docs[i], "type") = "event"
          /\ ~KeywordHit(query, all_actor_docs[i].page_content)
          /\ all_actor_docs[i].page_content \in Contents(retrieved_docs)

\* C10: under actor scope, when the store holds the actor's profile document,
\* no store call raised and the profile search, where the variant has one,
\* returned it, the profile document is in the returned list.
C10_ProfilePresent ==
    (/\ RetrievalReturned
     /\ Scoped
     /\ raised = {}
     /\ \E d \in Corpus : Matches(d, ProfileFilter)
     /\ variant = "RagAPP" => profile_docs # <<>>)
        => \E i \in 1..Len(retrieved_docs) : Matches(retrieved_docs[i], ProfileFilter)

\* C11: POST /query answers 503 exactly when a global is None, and then
\* neither detection nor a store search nor a completion call happens; any
\* other failure of the query is answered 500 with the message of the error.
C11_UnavailableOrFailed ==
    variant = "api" =>
        /\ (vectorstore = None \/ llm = None)
              => ~detected /\ store_log = <<>> /\ llm_calls = <<>>
        /\ pc = "done" =>
              /\ http.status_code = 503 <=> (vectorstore = None \/ llm = None)
              /\ (status = "error" /\ vectorstore # None /\ llm # None) =>
                    /\ http.status_code = 500
                    /\ StartsAt(http.detail, "Query failed: ", 1)
                    /\ Len(http.detail) > Len("Query failed: ")
              /\ failure = "detect_query_actor" =>
                    http.detail = "Query failed: cannot convert float infinity to integer"
              /\ status = "ok" => http.status_code = 200

\* the index was loaded, the model was not connected, and the query was
\* answered 503
C11_Witness ==
    /\ variant = "api"
    /\ pc = "done"
    /\ vectorstore # None
    /\ llm = None
    /\ http = Response(503, "LLM not connected. Check your GROQ_API_KEY.")

\* the query passed the service checks
Processed == detected

\* C12 as stated: a processed query issues at most 6 store searches and
\* exactly one completion call.
C12_ExactlyOneCompletion ==
    (pc = "done" /\ Processed) => (Len(store_log) <= 6 /\ Len(llm_calls) = 1)

\* C12, amended: a query issues at most 6 store searches (one per strategy
\* that runs: 2 without actor scope, at most 4 in api.py) and at most one
\* completion call; the call is made exactly when retrieval returned a
\* document.
C12_BoundedCalls ==
    /\ Len(store_log) <= 6
    /\ variant = "api" => Len(store_log) <= 4
    /\ (detected /\ ~Scoped) => Len(store_log) <= 2
    /\ \A i, j \in 1..Len(store_log) : i < j => store_log[i].strategy # store_log[j].strategy
    /\ Len(llm_calls) <= 1
    /\ pc = "done" => (Len(llm_calls) = 1 <=> (RetrievalReturned /\ retrieved_docs # <<>>))

\* a scoped query of RagAPP.py ran its six searches and one completion call
C12_Witness ==
    /\ pc = "done"
    /\ variant = "RagAPP"
    /\ Len(store_log) = 6
    /\ Len(llm_calls) = 1
    /\ status = "ok"

\* C13: for any interleaving of two /query requests, a request that has
\* finished has the result (documents, context, answer, status) that the
\* same request has when it runs alone against the same store.
C13_IndependentRequests ==
    \A r \in DOMAIN inflight :
        inflight[r].pc = "done" => inflight[r] = Alone(inflight[r].query)

\* two requests with one query: the second finished with documents while
\* the first, which had already accumulated some, was between two strategies
C13_Witness ==
    /\ DOMAIN inflight = Requests
    /\ inflight[1].query = inflight[2].query
    /\ inflight[1].pc \in {"s2", "s3", "s35"}
    /\ inflight[1].all_docs # <<>>
    /\ inflight[2].pc = "done"
    /\ inflight[2].retrieved_docs # <<>>

\* the documents indexed under the normal form of id
IndexedUnder(t, id) ==
    LET r == normalize_id(PyStr(id))
        Hit(d) == r.ok /\ Matches(d, Filter1(t \o "_id", r.s))
    IN  SelectSeq(CorpusOrder, Hit)

\* C14: every id handed to the store as the value of a metadata filter by
\* the debug command or the debug endpoint is in normalize_id form, and the
\* search returns the documents indexed under the normal form of the id.
C14_DebugFilterNormalized ==
    (debug_pc = "done" /\ debug_filter # NoFilter) =>
        /\ \A key \in DOMAIN debug_filter :
              normalize_id(PyStr(debug_filter[key])) = Returned(debug_filter[key])
        /\ debug_status \in {"printed", "200"} =>
              debug_docs = IndexedUnder(debug_input.actor_type, debug_input.actor_id)

\* the score the final ranking gave a document
RankScore(doc) == fuzzy_match_score(rank_scores[doc.page_content], 0)

\* C15: without actor scope the result holds every accumulated document
\* exactly once, in non-increasing order of fuzzy_match_score at threshold 0.
C15_UnscopedRanking ==
    (pc = "answer" /\ ~Scoped) =>
        /\ Len(retrieved_docs) = Len(all_docs)
        /\ \A i \in 1..Len(all_docs) :
              Cardinality({j \in 1..Len(retrieved_docs) : retrieved_docs[j] = all_docs[i]}) = 1
        /\ \A i, j \in 1..Len(retrieved_docs) :
              i < j => ~ScoreLess(RankScore(retrieved_docs[i]), RankScore(retrieved_docs[j]))

\* three documents were ranked, the last accumulated one scored best and
\* came first, and a document with a score under every threshold was kept
C15_Witness ==
    /\ pc = "answer"
    /\ ~Scoped
    /\ Len(all_docs) = 3
    /\ retrieved_docs[1] = all_docs[3]
    /\ ScoreLess(RankScore(all_docs[1]), RankScore(all_docs[3]))
    /\ \E i \in 1..3 : rank_scores[retrieved_docs[i].page_content] = <<30, 20>>

\* the patterns and the keyword groups of the variant
PatternsOf(v) == IF v = "RagAPP" THEN PatternsRagAPP ELSE PatternsApi

KeywordsOf(v) == IF v = "RagAPP" THEN KeywordsRagAPP ELSE KeywordsApi

\* C16: detect_query_actor never raises; when no id-bearing pattern matches
\* it returns (type of the first keyword present, none), or (none, none)
\* without a keyword; when an id-bearing pattern of any type matches, its
\* type and an id are returned, whatever bare keywords the query holds.
C16_FallbackAndPrecedence ==
    LET k == FirstMatch(Lower(query), PatternsOf(variant), 1)
    IN  (pc # "detect" /\ pc # "idle") =>
            /\ failure # "detect_query_actor"
            /\ k = 0 => /\ actor_id = None
                        /\ actor_type = FirstKeyword(Lower(query), KeywordsOf(variant), 1)
            /\ k > 0 => /\ actor_type = PatternsOf(variant)[k].actor
                        /\ actor_id # None

\* the triggers that occur in the lowercased query
FiredTriggers(q) == {k \in 1..Len(Expansions) : Contains(Lower(q), Expansions[k].key)}

\* the synonyms of the triggers that fired
FiredSynonyms(q) == UNION {Range(Expansions[k].synonyms) : k \in FiredTriggers(q)}

\* how often w stands in text as a word between spaces
WordCount(text, w) ==
    Cardinality({i \in 1..Len(text) :
                    /\ StartsAt(text, w, i)
                    /\ (i = 1 \/ Ch(text, i - 1) = " ")
                    /\ (i + Len(w) > Len(text) \/ Ch(text, i + Len(w)) = " ")})

RECURSIVE TotalLen(_)
TotalLen(words) ==
    IF words = {} THEN 0
    ELSE LET w == CHOOSE x \in words : TRUE IN Len(w) + TotalLen(words \ {w})

\* text is the words of the set, each once, with single spaces between them
EachOnce(text, words) ==
    /\ \A w \in words : WordCount(text, w) = 1
    /\ Len(text) = TotalLen(words) + Cardinality(words) - 1

\* C17: expand_query returns the query unchanged when no trigger occurs in
\* the lowercased query; otherwise the query, a space, and the synonyms of
\* every trigger that fired, space-separated, each exactly once.
C17_ExpandQuery ==
    expand_pc = "done" =>
        IF FiredTriggers(expand_input) = {}
        THEN expand_output = expand_input
        ELSE /\ StartsAt(expand_output, expand_input \o " ", 1)
             /\ EachOnce(SubSeq(expand_output, Len(expand_input) + 2, Len(expand_output)),
                         FiredSynonyms(expand_input))

\* a query with a capitalised trigger and a second trigger was expanded with
\* the synonyms of both, listed in another order than they were collected
C17_Witness ==
    /\ expand_pc = "done"
    /\ expand_input = "Doctorinsurance"
    /\ FiredTriggers(expand_input) = {6, 8}
    /\ StartsAt(expand_output, "Doctorinsurance insurer coverage", 1)

\* C18: fuzzy_match_score returns 0 or a value from the threshold to 100,
\* and 100 for two identical non-empty strings up to case at threshold 60.
C18_ScoreBoundsAndIdentity ==
    score_pc = "done" =>
        /\ \/ score_result = ScoreZero
           \/ /\ ~ScoreLess(score_result, Score(10 * score_threshold, 0))
              /\ ~ScoreLess(Score(1000, 0), score_result)
        /\ (/\ Lower(score_query) = Lower(score_text)
            /\ score_query # ""
            /\ score_threshold = 60) => score_result = Score(1000, 0)

\* the strategy at s35 asked the store
FuzzySearched == store_log # <<>> /\ store_log[Len(store_log)].strategy = "s35"

\* C19: the fuzzy strategy asks the store exactly when an actor scope is set
\* and fewer than 50 documents are accumulated; with 50 or more it asks
\* nothing and adds nothing; when it runs it appends at most 50 documents.
C19_FuzzyGuard ==
    [][pc = "s35" =>
          /\ (store_log' # store_log) <=> (Scoped /\ Len(all_docs) < 50)
          /\ ~(Scoped /\ Len(all_docs) < 50) => all_docs' = all_docs
          /\ Len(all_docs') <= Len(all_docs) + 50
          /\ SubSeq(all_docs', 1, Len(all_docs)) = all_docs]_vars

\* nothing was accumulated, the store returned more than 50 documents, all
\* scored alike, and the strategy added the first 50
C19_Witness ==
    /\ pc # "s35"
    /\ FuzzySearched
    /\ fuzzy_out.ok
    /\ Len(fuzzy_out.docs) = MaxActorDocs
    /\ fuzzy_pairs = ScoringOf("all")
    /\ Len(all_docs) = 50
    /\ all_docs[1] = ActorDoc(1)

\* the score strategy 3.5 gives a document
FuzzyScore(doc) == fuzzy_match_score(fuzzy_pairs[doc.page_content], 50)

\* how many of the returned documents, other than the i-th, score at least
\* as much as the i-th, and how many score more
NotWorse(found, i) ==
    Cardinality({j \in 1..Len(found) :
                    j # i /\ ~ScoreLess(FuzzyScore(found[j]), FuzzyScore(found[i]))})

Better(found, i) ==
    Cardinality({j \in 1..Len(found) : ScoreLess(FuzzyScore(found[i]), FuzzyScore(found[j]))})

\* C20: in the fuzzy strategy every returned document with a score > 0 (the
\* score being fuzzy_match_score at threshold 50) is a candidate; the
\* candidates are taken best first and the top 50 are in the accumulated
\* list afterwards: one that fewer than 50 others equal or beat is in it,
\* and what is appended has a score > 0, is beaten by fewer than 50, and
\* stands in non-increasing order of score.
C20_FuzzyCandidates ==
    [][(pc = "s35" /\ Scoped /\ Len(all_docs) < 50 /\ fuzzy_out.ok) =>
          /\ \A i \in 1..Len(fuzzy_out.docs) :
                (/\ ScoreLess(ScoreZero, FuzzyScore(fuzzy_out.docs[i]))
                 /\ NotWorse(fuzzy_out.docs, i) < 50)
                    => fuzzy_out.docs[i].page_content \in Contents(all_docs')
          /\ \A k \in (Len(all_docs) + 1)..Len(all_docs') :
                \E i \in 1..Len(fuzzy_out.docs) :
                    /\ fuzzy_out.docs[i] = all_docs'[k]
                    /\ ScoreLess(ScoreZero, FuzzyScore(fuzzy_out.docs[i]))
                    /\ Better(fuzzy_out.docs, i) < 50
          /\ \A k, l \in (Len(all_docs) + 1)..Len(all_docs') :
                k < l => ~ScoreLess(FuzzyScore(all_docs'[k]), FuzzyScore(all_docs'[l]))]_vars

\* the store returned more than 50 documents, the first two with a lower
\* score than the others: the others were added and the first was not
C20_Witness ==
    /\ pc # "s35"
    /\ FuzzySearched
    /\ fuzzy_out.ok
    /\ Len(fuzzy_out.docs) = MaxActorDocs
    /\ fuzzy_pairs = ScoringOf("rising")
    /\ Len(all_docs) = 50
    /\ all_docs[1] = ActorDoc(3)
    /\ ActorDoc(1).page_content \notin Contents(all_docs)

\* the strategies in the order get_relevant_documents runs them
StrategyOrder == <<"s1", "s2", "s3", "s35", "s4", "s5">>

Place(strategy) == CHOOSE i \in 1..Len(StrategyOrder) : StrategyOrder[i] = strategy

\* the offers made of the text c
OffersFor(c) == {o \in offers.made : o.doc.page_content = c}

\* the copy of c that came first: the first of the earliest strategy's list
Earliest(c) ==
    CHOOSE o \in OffersFor(c) :
        o.first /\ \A o2 \in OffersFor(c) : Place(o.strategy) <= Place(o2.strategy)

\* every document of docs is the copy of its text that came first
FirstCopies(docs) ==
    \A i \in 1..Len(docs) :
        /\ OffersFor(docs[i].page_content) # {}
        /\ docs[i] = Earliest(docs[i].page_content).doc

\* docs with, in some places, another offered copy of the same text
OtherCopies(docs) ==
    {alt \in [1..Len(docs) -> {o.doc : o \in offers.made}] :
        \A i \in 1..Len(docs) : alt[i].page_content = docs[i].page_content} \ {docs}

ContentSeq(docs) == [i \in 1..Len(docs) |-> docs[i].page_content]

\* C21: the store is asked by the strategies in their fixed order; the copy
\* of a text kept in the accumulated list and in the result is the first one
\* of the earliest strategy that offered the text; the texts of the result
\* are the texts offered; and with any other offered copy kept in its place
\* the result would hold the same texts in the same places (without actor
\* scope: for every scoring of the texts with two values).
C21_FirstSeenWins ==
    /\ \A i, j \in 1..Len(store_log) :
          i < j => Place(store_log[i].strategy) < Place(store_log[j].strategy)
    /\ FirstCopies(all_docs)
    /\ Contents(all_docs) = {o.doc.page_content : o \in offers.made}
    /\ RetrievalReturned =>
          /\ FirstCopies(retrieved_docs)
          /\ Contents(retrieved_docs) = {o.doc.page_content : o \in offers.made}
          /\ \A alt \in OtherCopies(all_docs) :
                IF Scoped
                THEN ContentSeq(EventFirst(alt)) = ContentSeq(retrieved_docs)
                ELSE \A pairOf \in [Contents(all_docs) -> {<<100, 100>>, <<50, 50>>}] :
                        ContentSeq(FuzzyRanking(alt, pairOf)) = ContentSeq(FuzzyRanking(all_docs, pairOf))

\* two strategies offered copies of one text that differ in metadata, and the
\* result holds the copy of the earlier strategy
C21_Witness ==
    /\ RetrievalReturned
    /\ \E o1, o2 \in offers.made :
          /\ o1.doc.page_content = o2.doc.page_content
          /\ o1.doc # o2.doc
          /\ Place(o1.strategy) < Place(o2.strategy)
          /\ o1.doc \in Range(retrieved_docs)

\* detection returned an actor type and no id
KeywordOnly == detected /\ actor_type # None /\ actor_id = None

\* the searches of a retriever without actor scope
UnscopedCalls ==
    <<Call("s1", "similarity_search", NoFilter, 100), CallMMR("s2", NoFilter, 50, 150)>>

\* C22: when detection returned an actor type and no id, the retriever asks
\* the store only for the unfiltered similarity search (k=100) and the
\* unfiltered max marginal relevance search (k=50, fetch_k=150), in that
\* order, and returns the accumulated documents in non-increasing order of
\* fuzzy score; a search carries a filter only when type and id are both set.
C22_KeywordOnlyUnscoped ==
    /\ KeywordOnly =>
          /\ Len(store_log) <= Len(UnscopedCalls)
          /\ \A i \in 1..Len(store_log) : store_log[i] = UnscopedCalls[i]
          /\ pc = "answer" =>
                /\ store_log = UnscopedCalls
                /\ Contents(retrieved_docs) = Contents(all_docs)
                /\ \A i, j \in 1..Len(retrieved_docs) :
                      i < j => ~ScoreLess(RankScore(retrieved_docs[i]), RankScore(retrieved_docs[j]))
    /\ \A i \in 1..Len(store_log) :
          store_log[i].filter # NoFilter => (actor_type # None /\ actor_id # None)

\* a query with an actor word and no id was answered from two unfiltered
\* searches, and the result has a profile before an event that scored lower
C22_Witness ==
    /\ KeywordOnly
    /\ pc = "answer"
    /\ store_log = UnscopedCalls
    /\ \E i, j \in 1..Len(retrieved_docs) :
          /\ i < j
          /\ MetaGet(retrieved_docs[i], "type") # "event"
          /\ MetaGet(retrieved_docs[j], "type") = "event"
          /\ ScoreLess(RankScore(retrieved_docs[j]), RankScore(retrieved_docs[i]))

\* how often doc stands in docs
Occurrences(doc, docs) == Cardinality({i \in 1..Len(docs) : docs[i] = doc})

\* the events of docs, and the other documents of docs, each in their order
EventsOf(docs) ==
    LET IsEvent(d) == MetaGet(d, "type") = "event"
    IN  SelectSeq(docs, IsEvent)

OthersOf(docs) ==
    LET NotEvent(d) == MetaGet(d, "type") # "event"
    IN  SelectSeq(docs, NotEvent)

\* C23: with and without actor scope the returned list is a permutation of
\* the accumulated list; under actor scope the events stand in the returned
\* list in their accumulation order, and so do the documents of other types.
C23_OrderingIsPermutation ==
    RetrievalReturned =>
        /\ Len(retrieved_docs) = Len(all_docs)
        /\ \A d \in Range(all_docs) \cup Range(retrieved_docs) :
              Occurrences(d, retrieved_docs) = Occurrences(d, all_docs)
        /\ Scoped =>
              /\ EventsOf(retrieved_docs) = EventsOf(all_docs)
              /\ OthersOf(retrieved_docs) = OthersOf(all_docs)

\* under actor scope a profile was accumulated before two events, and the
\* list returned is not the accumulated list
C23_Witness ==
    /\ RetrievalReturned
    /\ Scoped
    /\ Len(EventsOf(all_docs)) >= 2
    /\ OthersOf(all_docs) # <<>>
    /\ retrieved_docs # all_docs

\* C24 (api.py): the service stops at start-up only when the embeddings
\* cannot be loaded, never because the index or the model could not be; once
\* it serves, vectorstore and llm are never assigned again; while one of them
\* is None every POST /query is answered with 503; and the last answer of
\* GET / or GET /health tells whether each of them is set.
C24_StartupGlobals ==
    /\ [](/\ service = "failed" => embedding_function = None
          /\ (service \in {"serving", "stopped"} /\ ~Ready /\ pc = "done")
                => http.status_code = 503
          /\ (service \in {"serving", "stopped"} /\ health.endpoint \in {"/", "/health"})
                => /\ health.status_code = 200
                   /\ health.database_loaded = (vectorstore # None)
                   /\ health.llm_connected = (llm # None))
    /\ [][(service \in {"serving", "stopped"}) => UNCHANGED <<vectorstore, llm>>]_vars

\* the index could not be loaded, the service started all the same, three
\* queries were answered with 503, and GET /health reported the state
C24_Witness ==
    /\ service = "serving"
    /\ vectorstore = None
    /\ llm # None
    /\ served = MaxRequests
    /\ pc = "done"
    /\ http.status_code = 503
    /\ health.endpoint = "/health"
    /\ ~health.database_loaded
    /\ health.llm_connected

\* the commands that ended, and ended with exit status 0
StepsSucceeded == {i \in 1..Len(results) : results[i].kind = "ok"}

\* C25: the steps are started in list order, each once, a step only when
\* every step before it has ended with success (so never two at once); after
\* a step that failed no step is started and the process exits with status 1;
\* the summary is printed only after all steps succeeded.
C25_FailFastInOrder ==
    /\ \A i \in 1..Len(started) : started[i] = i
    /\ Len(started) <= NumSteps
    /\ Len(results) \in {Len(started), Len(started) - 1}
    /\ pipeline_pc = "running" <=> Len(results) = Len(started) - 1
    /\ \A i \in 1..Len(started) : \A j \in 1..(i - 1) : j \in StepsSucceeded
    /\ success_count <= Cardinality(StepsSucceeded)
    /\ \A i \in 1..Len(results) :
          i \notin StepsSucceeded =>
              /\ i = Len(started)
              /\ pipeline_pc \in {"returned", "exited"}
              /\ ~summary
              /\ pipeline_pc = "exited" => exit_status = 1
    /\ summary => (StepsSucceeded = 1..NumSteps /\ success_count = NumSteps /\ exit_status = 0)

\* the fourth step was interrupted from the keyboard after three steps had
\* succeeded, and the process exited with status 1
C25_Witness ==
    /\ pipeline_pc = "exited"
    /\ exit_status = 1
    /\ Len(started) = 4
    /\ results[4].kind = "KeyboardInterrupt"
    /\ success_count = 3

\* the call of process_generic_table whose commit has just worked, 0 if none
JustCommitted ==
    IF loader_pc = "done" THEN 2
    ELSE IF loader_pc = "select" THEN pass - 1
    ELSE 0

\* C26: when a pass over a table has committed, every row the pass selected
\* is 'validated' if its INSERT executed without exception and 'error'
\* otherwise, so that none is left 'pending'.
C26_StatusFollowsInsert ==
    JustCommitted # 0 =>
        \A id \in selected[JustCommitted] :
            /\ extraction_status[id] = "validated" <=> id \in inserts[JustCommitted]
            /\ id \notin inserts[JustCommitted] => extraction_status[id] = "error"
            /\ extraction_status[id] # "pending"

\* C27: in one run no staging row is inserted into conditions more than
\* once, and the second pass over staging_conditions selects no row the
\* first pass selected.
C27_InsertedAtMostOnce ==
    /\ \A id \in StagingIds : conditions[id] <= 1
    /\ selected[1] \cap selected[2] = {}

\* the committed rows of a table
RowsOf(table) == {i \in 1..Len(staging) : staging[i].table = table}

\* the count process_report got for the patient, 0 while it has none
PatientCount ==
    IF stats # <<>> /\ stats[1][1] = "patients" THEN stats[1][2] ELSE 0

\* C28: the rows of a report are inserted in the order patient, encounter,
\* child tables; no encounter and no child row is inserted unless the
\* insertion of the patient succeeded, and a failed one ends the report;
\* every child row carries the id of the patient row and the encounter id of
\* the report.
C28_PatientFirst ==
    /\ \A i, j \in 1..Len(staging) :
          i < j => TableOrder(staging[i].table) <= TableOrder(staging[j].table)
    /\ Cardinality(RowsOf("staging_patients")) <= 1
    /\ Cardinality(RowsOf("staging_encounters")) <= 1
    /\ extractor_pc = "stopped" =>
          (PatientCount = 0 /\ \A i \in 1..Len(staging) : staging[i].table = "staging_patients")
    /\ \A i \in 1..Len(staging) :
          staging[i].table # "staging_patients" =>
              /\ PatientCount > 0
              /\ staging[1].table = "staging_patients"
              /\ staging[1].id = clean_value(patient_data)
              /\ staging[i].patient_id = staging[1].id
              /\ staging[i].table # "staging_encounters" =>
                    /\ staging[i].encounter_id = clean_value(encounter_data)
                    /\ \A j \in RowsOf("staging_encounters") :
                          staging[i].encounter_id = staging[j].id
              /\ staging[i].table = "staging_encounters" => staging[i].id = clean_value(encounter_data)

\* a report whose patient and encounter were inserted and that has rows in
\* two child tables
C28_Witness ==
    /\ extractor_pc = "done"
    /\ RowsOf("staging_patients") # {}
    /\ RowsOf("staging_encounters") # {}
    /\ RowsOf("staging_conditions") # {}
    /\ RowsOf("staging_immunizations") # {}
    /\ staging[1].id = "p1"

\* the calls of cursor.execute that raised
FailedCalls == {i \in 1..Len(executed) : ~executed[i][2]}

====
